---- MODULE Spec2Model ----
(***************************************************************************)
(* A model of the DOCX style extraction of ThesisFormatPro                 *)
(* (services/docxParser: parseDocxStyles) and of the place in App that     *)
(* awaits it (handleThesisFileUpload).                                     *)
(*                                                                         *)
(* Representation.                                                         *)
(*  - A JavaScript string is a sequence of one-character strings:          *)
(*    "Normal" is <<"N","o","r","m","a","l">>.                             *)
(*  - A value that may be null/undefined is a sequence of length 0 or 1:   *)
(*    Null is <<>>, a present value v is <<v>>.                            *)
(*  - The report is the sequence of the fragments that the template        *)
(*    literals of the source concatenate: a fixed piece of a template is   *)
(*    ONE element (the Lit... definitions, transliterated to ASCII since   *)
(*    the module is ASCII), an interpolated value contributes its          *)
(*    characters one by one.  The JavaScript string is the concatenation   *)
(*    of the elements.                                                     *)
(***************************************************************************)
EXTENDS Integers, Sequences, FiniteSets, TLC

VARIABLES
    pc,                   \* position of the invocation of parseDocxStyles
    file,                 \* the File handed to parseDocxStyles
    result,               \* how the promise of parseDocxStyles settled
    thesisStyleAnalysis,  \* the caller's state (App: setThesisStyleAnalysis)
    engine,               \* the DOMParser of the browser session
    invocations,          \* several invocations of parseDocxStyles in one session
    frames,               \* the local `zip` of each activation of parseDocxStyles
    apiKey,               \* whether process.env.API_KEY is set
    analyzeCalls,         \* the activations of analyzeText, in call order
    fixCalls,             \* the activations of fixText, in call order
    currentStep,          \* App state: the step shown
    thesisText,           \* App state
    thesisHtml,           \* App state
    formatRequirements,   \* App state
    formatFileBase64,     \* App state
    analysisResult,       \* App state
    inputsChanged,        \* App state
    fixedText,            \* App state
    isLoading,            \* App state
    isExtractingRules,    \* App state
    abortControllerRef,   \* abortControllerRef.current: 0 for null, else the
                          \* controller of analyzeCalls[abortControllerRef]
    tasks,                \* the awaits of the other handlers that have not settled
    lastEvent             \* the handler or continuation that ran last

parseVars == <<pc, file, result, thesisStyleAnalysis>>

invVars == <<engine, invocations, frames>>

analyzeVars == <<apiKey, analyzeCalls, fixCalls>>

appVars ==
    <<currentStep, thesisText, thesisHtml, formatRequirements, formatFileBase64,
      analysisResult, inputsChanged, fixedText, isLoading, isExtractingRules,
      abortControllerRef, tasks, lastEvent>>

vars == <<parseVars, invVars, analyzeVars, appVars>>

(***************************************************************************)
(* Optional values and strings                                             *)
(***************************************************************************)
Null == <<>>

Some(v) == <<v>>

IsNull(o) == o = <<>>

Get(o) == o[1]

UpperChars ==
    <<"A","B","C","D","E","F","G","H","I","J","K","L","M",
      "N","O","P","Q","R","S","T","U","V","W","X","Y","Z">>

LowerChars ==
    <<"a","b","c","d","e","f","g","h","i","j","k","l","m",
      "n","o","p","q","r","s","t","u","v","w","x","y","z">>

\* one character of String.prototype.toLowerCase
LowerChar(c) ==
    IF \E j \in 1..Len(UpperChars) : UpperChars[j] = c
    THEN LowerChars[CHOOSE j \in 1..Len(UpperChars) : UpperChars[j] = c]
    ELSE c

\* String.prototype.toLowerCase
ToLowerCase(s) == [k \in 1..Len(s) |-> LowerChar(s[k])]

\* String.prototype.includes
Includes(s, t) ==
    \E k \in 0..(Len(s) - Len(t)) : SubSeq(s, k + 1, k + Len(t)) = t

\* `${v}` of a string or null: null is spelled "null"
Interp(o) == IF IsNull(o) THEN <<"n","u","l","l">> ELSE Get(o)

(***************************************************************************)
(* The DOM: an element has a tag, attributes (name/value pairs in source   *)
(* order) and child elements.                                              *)
(***************************************************************************)
Elem(tag, attrs, children) ==
    [tag |-> tag, attrs |-> attrs, children |-> children]

\* Element.getAttribute: the value, or null when the attribute is absent
GetAttribute(e, n) ==
    IF \E k \in 1..Len(e.attrs) : e.attrs[k][1] = n
    THEN Some(e.attrs[CHOOSE k \in 1..Len(e.attrs) : e.attrs[k][1] = n][2])
    ELSE Null

RECURSIVE Descendants(_)
RECURSIVE DescendantsOfAll(_)
\* the descendants of e in document order (preorder), e excluded
Descendants(e) == DescendantsOfAll(e.children)

DescendantsOfAll(es) ==
    IF es = <<>> THEN <<>>
    ELSE <<Head(es)>> \o Descendants(Head(es)) \o DescendantsOfAll(Tail(es))

\* Element.getElementsByTagName: the descendants with the tag, in document order
GetElementsByTagName(e, tag) ==
    SelectSeq(Descendants(e), LAMBDA d : d.tag = tag)

\* getElementsByTagName(tag)[0]: the first one, or undefined
FirstByTagName(e, tag) ==
    LET found == GetElementsByTagName(e, tag)
    IN  IF found = <<>> THEN Null ELSE Some(found[1])

(***************************************************************************)
(* Numbers: parseInt and the conversion of a Number to a string.  A        *)
(* Number is NaN or an integer; the only division is by two, so a value    *)
(* is printed from its double (HalfToString).                              *)
(***************************************************************************)
NaN == <<>>

Num(n) == <<n>>

DigitChars ==
    <<"0","1","2","3","4","5","6","7","8","9","a","b","c","d","e","f">>

WhiteSpaceChars == {" ", "\t", "\n", "\r"}

\* the value of c as a digit of the radix, or -1
DigitValue(c, radix) ==
    LET lc == LowerChar(c)
    IN  IF \E j \in 1..radix : DigitChars[j] = lc
        THEN (CHOOSE j \in 1..radix : DigitChars[j] = lc) - 1
        ELSE -1

RECURSIVE StripLeadingWhiteSpace(_)
StripLeadingWhiteSpace(s) ==
    IF s # <<>> /\ Head(s) \in WhiteSpaceChars
    THEN StripLeadingWhiteSpace(Tail(s))
    ELSE s

RECURSIVE DigitsValue(_, _, _)
\* the value of the longest prefix of s made of digits of the radix, read
\* after the digits whose value is acc
DigitsValue(s, radix, acc) ==
    IF s # <<>> /\ DigitValue(Head(s), radix) >= 0
    THEN DigitsValue(Tail(s), radix, acc * radix + DigitValue(Head(s), radix))
    ELSE acc

\* parseInt(s) with no radix argument
ParseInt(s) ==
    LET t      == StripLeadingWhiteSpace(s)
        neg    == t # <<>> /\ Head(t) = "-"
        u      == IF t # <<>> /\ Head(t) \in {"-", "+"} THEN Tail(t) ELSE t
        hex    == Len(u) >= 2 /\ u[1] = "0" /\ u[2] \in {"x", "X"}
        radix  == IF hex THEN 16 ELSE 10
        digits == IF hex THEN Tail(Tail(u)) ELSE u
        n      == DigitsValue(digits, radix, 0)
    IN  IF digits = <<>> \/ DigitValue(Head(digits), radix) < 0
        THEN NaN
        ELSE Num(IF neg THEN 0 - n ELSE n)

RECURSIVE NatToString(_)
NatToString(n) ==
    IF n < 10 THEN <<DigitChars[n + 1]>>
    ELSE NatToString(n \div 10) \o <<DigitChars[(n % 10) + 1]>>

\* `${v}` of a Number
NumberToString(v) ==
    IF v = NaN THEN <<"N","a","N">>
    ELSE IF Get(v) < 0 THEN <<"-">> \o NatToString(0 - Get(v))
    ELSE NatToString(Get(v))

\* a mutant of HalfToString: the division rounds down to an integer
HalfToStringFloors(v) ==
    IF v = NaN THEN <<"N","a","N">>
    ELSE NumberToString(Num(Get(v) \div 2))

\* `${v/2}` of a Number v
HalfToString(v) ==
    IF v = NaN THEN <<"N","a","N">>
    ELSE LET n == Get(v)
             a == IF n < 0 THEN 0 - n ELSE n
         IN  (IF n < 0 THEN <<"-">> ELSE <<>>)
             \o NatToString(a \div 2)
             \o (IF a % 2 = 1 THEN <<".", "5">> ELSE <<>>)

(***************************************************************************)
(* The fixed pieces of the strings of parseDocxStyles                      *)
(***************************************************************************)
LitNotFound    == "cannot read the document's style definitions (word/styles.xml does not exist)"
LitParseFailed == "cannot parse the .docx internal XML structure, analysing the text content only"
LitReport      == "[analysis of the document's internal style definitions (from word/styles.xml)]:\n"
LitStyleName   == "\n[style name: "
LitStyleId     == " (ID: "
LitStyleEnd    == ")]"
LitFontAscii   == "\n  - font: western=\""
LitFontEast    == "\", chinese=\""
LitFontEnd     == "\""
LitDefault     == "default"
LitSize        == "\n  - size: "
LitSizePt      == " (that is "
LitSizeEnd     == "pt)"
LitBold        == "\n  - bold: yes"
LitSpacing     == "\n  - line spacing: "
LitSpacingRule == " (rule: "
LitSpacingEnd  == ")"
LitJc          == "\n  - alignment: "

(***************************************************************************)
(* The report of one style: the body of the loop of parseDocxStyles        *)
(***************************************************************************)
\* const name = nameNode ? nameNode.getAttribute("w:val") : styleId
StyleName(style) ==
    LET nameNode == FirstByTagName(style, "w:name")
    IN  IF nameNode # Null
        THEN GetAttribute(Get(nameNode), "w:val")
        ELSE GetAttribute(style, "w:styleId")

\* styleId?.toLowerCase().includes("heading")
IsHeading(styleId) ==
    /\ styleId # Null
    /\ Includes(ToLowerCase(Get(styleId)), <<"h","e","a","d","i","n","g">>)

\* a mutant of IsNormal: the display name is not looked at
IsNormalByIdOnly(styleId, name) ==
    /\ styleId # Null
    /\ Includes(ToLowerCase(Get(styleId)), <<"n","o","r","m","a","l">>)

\* styleId?.toLowerCase().includes("normal") || name === "Normal"
IsNormal(styleId, name) ==
    \/ /\ styleId # Null
       /\ Includes(ToLowerCase(Get(styleId)), <<"n","o","r","m","a","l">>)
    \/ name = Some(<<"N","o","r","m","a","l">>)

\* v || fallback, of a string or null v
OrElse(v, fallback) ==
    IF IsNull(v) \/ Get(v) = <<>> THEN fallback ELSE Get(v)

\* a mutant of FontLine: the two font names change places
FontLineSwapped(rPr) ==
    LET rFonts == FirstByTagName(rPr, "w:rFonts")
    IN  IF rFonts = Null THEN <<>>
        ELSE <<LitFontAscii>>
             \o OrElse(GetAttribute(Get(rFonts), "w:eastAsia"), <<LitDefault>>)
             \o <<LitFontEast>>
             \o OrElse(GetAttribute(Get(rFonts), "w:ascii"), <<LitDefault>>)
             \o <<LitFontEnd>>

\* if (rFonts) { report += font line }
FontLine(rPr) ==
    LET rFonts == FirstByTagName(rPr, "w:rFonts")
    IN  IF rFonts = Null THEN <<>>
        ELSE LET ascii    == GetAttribute(Get(rFonts), "w:ascii")
                 eastAsia == GetAttribute(Get(rFonts), "w:eastAsia")
             IN  <<LitFontAscii>> \o OrElse(ascii, <<LitDefault>>)
                 \o <<LitFontEast>> \o OrElse(eastAsia, <<LitDefault>>)
                 \o <<LitFontEnd>>

\* a mutant of SizeLine: a size element without a value gives no line
SizeLineNeedsValue(rPr) ==
    LET sz == FirstByTagName(rPr, "w:sz")
    IN  IF sz = Null \/ GetAttribute(Get(sz), "w:val") = Null THEN <<>>
        ELSE LET val == ParseInt(OrElse(GetAttribute(Get(sz), "w:val"), <<"0">>))
             IN  <<LitSize>> \o NumberToString(val)
                 \o <<LitSizePt>> \o HalfToString(val) \o <<LitSizeEnd>>

\* if (sz) { const val = parseInt(...); report += size line }
SizeLine(rPr) ==
    LET sz == FirstByTagName(rPr, "w:sz")
    IN  IF sz = Null THEN <<>>
        ELSE LET val == ParseInt(OrElse(GetAttribute(Get(sz), "w:val"), <<"0">>))
             IN  <<LitSize>> \o NumberToString(val)
                 \o <<LitSizePt>> \o HalfToString(val) \o <<LitSizeEnd>>

\* a mutant of BoldLine: the bold element must carry a value to count
BoldLineNeedsValue(rPr) ==
    LET b == FirstByTagName(rPr, "w:b")
    IN  IF b # Null /\ GetAttribute(Get(b), "w:val") \notin {Null, Some(<<"0">>)}
        THEN <<LitBold>>
        ELSE <<>>

\* if (b && b.getAttribute("w:val") !== "0") report += bold line
BoldLine(rPr) ==
    LET b == FirstByTagName(rPr, "w:b")
    IN  IF b # Null /\ GetAttribute(Get(b), "w:val") # Some(<<"0">>)
        THEN <<LitBold>>
        ELSE <<>>

\* const rPr = ...; if (rPr) { font, size, bold }
RunLines(style) ==
    LET rPr == FirstByTagName(style, "w:rPr")
    IN  IF rPr = Null THEN <<>>
        ELSE FontLine(Get(rPr)) \o SizeLine(Get(rPr)) \o BoldLine(Get(rPr))

\* a mutant of SpacingLine: the line value (twentieths of a point) is
\* written in points
SpacingLineInPoints(pPr) ==
    LET spacing == FirstByTagName(pPr, "w:spacing")
    IN  IF spacing = Null THEN <<>>
        ELSE LET line == ParseInt(OrElse(GetAttribute(Get(spacing), "w:line"), <<"0">>))
                 lineRule == GetAttribute(Get(spacing), "w:lineRule")
             IN  <<LitSpacing>>
                 \o (IF line = NaN THEN NumberToString(line)
                     ELSE NumberToString(Num(Get(line) \div 20)))
                 \o <<LitSpacingRule>> \o Interp(lineRule) \o <<LitSpacingEnd>>

\* if (spacing) { report += spacing line }
SpacingLine(pPr) ==
    LET spacing == FirstByTagName(pPr, "w:spacing")
    IN  IF spacing = Null THEN <<>>
        ELSE LET line     == GetAttribute(Get(spacing), "w:line")
                 lineRule == GetAttribute(Get(spacing), "w:lineRule")
             IN  <<LitSpacing>> \o Interp(line)
                 \o <<LitSpacingRule>> \o Interp(lineRule) \o <<LitSpacingEnd>>

\* if (jc) { report += alignment line }
JcLine(pPr) ==
    LET jc == FirstByTagName(pPr, "w:jc")
    IN  IF jc = Null THEN <<>>
        ELSE <<LitJc>> \o Interp(GetAttribute(Get(jc), "w:val"))

\* const pPr = ...; if (pPr) { spacing, alignment }
ParagraphLines(style) ==
    LET pPr == FirstByTagName(style, "w:pPr")
    IN  IF pPr = Null THEN <<>>
        ELSE SpacingLine(Get(pPr)) \o JcLine(Get(pPr))

\* one pass of the loop body: what it appends to the report
StyleBlock(style) ==
    LET styleId == GetAttribute(style, "w:styleId")
        name    == StyleName(style)
    IN  IF IsHeading(styleId) \/ IsNormal(styleId, name)
        THEN <<LitStyleName>> \o Interp(name) \o <<LitStyleId>>
             \o Interp(styleId) \o <<LitStyleEnd>>
             \o RunLines(style) \o ParagraphLines(style)
        ELSE <<>>

\* a mutant of Append: the block is put in front of what was written
PrependBlock(report, block) ==
    IF report = <<>> THEN block ELSE <<Head(report)>> \o block \o Tail(report)

\* report += block
AppendBlock(report, block) == report \o block

RECURSIVE StyleLoopInheriting(_, _, _)
\* a mutant of StyleLoop: a style without paragraph properties of its own
\* takes the paragraph lines of the style it is based on
StyleLoopInheriting(styles, i, report) ==
    IF i > Len(styles) THEN report
    ELSE LET style   == styles[i]
             base    == FirstByTagName(style, "w:basedOn")
             parents == IF base = Null THEN <<>>
                        ELSE SelectSeq(styles,
                                 LAMBDA p : GetAttribute(p, "w:styleId")
                                              = GetAttribute(Get(base), "w:val"))
             inherited ==
                 IF /\ StyleBlock(style) # <<>>
                    /\ parents # <<>>
                    /\ FirstByTagName(style, "w:pPr") = Null
                 THEN ParagraphLines(parents[1])
                 ELSE <<>>
         IN  StyleLoopInheriting(styles, i + 1,
                 AppendBlock(report, StyleBlock(style) \o inherited))

RECURSIVE StyleLoop(_, _, _)
\* for (let i = 0; i < styles.length; i++) { ... }, from index i (1-based)
StyleLoop(styles, i, report) ==
    IF i > Len(styles) THEN report
    ELSE StyleLoop(styles, i + 1, AppendBlock(report, StyleBlock(styles[i])))

\* the synchronous part after the XML is parsed: collect the style
\* elements, write the header and run the loop
GenerateReport(xmlDoc) ==
    LET styles == GetElementsByTagName(xmlDoc, "w:style")
    IN  StyleLoop(styles, 1, <<LitReport>>)

(***************************************************************************)
(* The input.  The text of word/styles.xml is held by its abstract syntax: *)
(* the sequence of the style definitions written in it (StyleDef records), *)
(* and whether the text is well formed.  DOMParser turns it into a tree.   *)
(***************************************************************************)
StyleDef(styleId, name, rPr, pPr) ==
    [styleId |-> styleId,  \* the w:styleId attribute, or Null
     name    |-> name,     \* Null: no w:name element; Some(v): one whose w:val is v
     basedOn |-> Null,     \* Null: no w:basedOn element; Some(v): one whose w:val is v
     rPr     |-> rPr,      \* Null, or Some of a RunProperties record
     pPr     |-> pPr]      \* Null, or Some of a ParagraphProperties record

\* the style definition d with a w:basedOn element whose w:val is parent
\* (Null: the element has no w:val)
BasedOn(d, parent) == [d EXCEPT !.basedOn = Some(parent)]

\* rFonts: Null or Some of Fonts; sz and b: Null (no element) or Some(v), v the w:val
RunProperties(rFonts, sz, b) == [rFonts |-> rFonts, sz |-> sz, b |-> b]

Fonts(ascii, eastAsia) == [ascii |-> ascii, eastAsia |-> eastAsia]

\* spacing: Null or Some of Spacing; jc: Null (no element) or Some(v), v the w:val
ParagraphProperties(spacing, jc) == [spacing |-> spacing, jc |-> jc]

Spacing(line, lineRule) == [line |-> line, lineRule |-> lineRule]

\* one attribute, written when its value is present
Attr(n, v) == IF v = Null THEN <<>> ELSE << <<n, Get(v)>> >>

\* an element with one optional w:val attribute, written when present
ValElem(tag, o) ==
    IF o = Null THEN <<>> ELSE <<Elem(tag, Attr("w:val", Get(o)), <<>>)>>

RunPropertiesElem(r) ==
    Elem("w:rPr", <<>>,
         (IF r.rFonts = Null THEN <<>>
          ELSE <<Elem("w:rFonts",
                      Attr("w:ascii", Get(r.rFonts).ascii)
                      \o Attr("w:eastAsia", Get(r.rFonts).eastAsia), <<>>)>>)
         \o ValElem("w:b", r.b)
         \o ValElem("w:sz", r.sz))

ParagraphPropertiesElem(p) ==
    Elem("w:pPr", <<>>,
         (IF p.spacing = Null THEN <<>>
          ELSE <<Elem("w:spacing",
                      Attr("w:line", Get(p.spacing).line)
                      \o Attr("w:lineRule", Get(p.spacing).lineRule), <<>>)>>)
         \o ValElem("w:jc", p.jc))

\* the w:style element that the text of a style definition parses to
StyleElem(d) ==
    Elem("w:style", Attr("w:styleId", d.styleId),
         ValElem("w:name", d.name)
         \o ValElem("w:basedOn", d.basedOn)
         \o (IF d.pPr = Null THEN <<>> ELSE <<ParagraphPropertiesElem(Get(d.pPr))>>)
         \o (IF d.rPr = Null THEN <<>> ELSE <<RunPropertiesElem(Get(d.rPr))>>))

\* the document defaults that precede the styles of a styles part
DocDefaultsElem ==
    Elem("w:docDefaults", <<>>,
         <<Elem("w:rPrDefault", <<>>,
                <<Elem("w:rPr", <<>>,
                       <<Elem("w:rFonts", << <<"w:ascii", <<"A","r","i","a","l">> >> >>, <<>>),
                         Elem("w:sz", << <<"w:val", <<"2","0">> >> >>, <<>>)>>)>>)>>)

Engines == {"blink", "gecko"}

\* new DOMParser().parseFromString(text, "text/xml"): never throws.  Of a
\* text that is not well formed, Gecko returns a document that holds only a
\* parsererror element; Blink and WebKit keep what was parsed before the
\* error and put a parsererror element in front of it.
ParseFromString(text, eng) ==
    LET styleElems == [k \in 1..Len(text.styles) |-> StyleElem(text.styles[k])]
        parsererror == Elem("parsererror", <<>>, <<Elem("sourcetext", <<>>, <<>>)>>)
    IN  IF text.wellFormed
        THEN Elem("#document", <<>>,
                  <<Elem("w:styles", <<>>, <<DocDefaultsElem>> \o styleElems)>>)
        ELSE IF eng = "gecko"
        THEN Elem("#document", <<>>, <<parsererror>>)
        ELSE Elem("#document", <<>>,
                  <<Elem("w:styles", <<>>,
                         <<parsererror>> \o <<DocDefaultsElem>> \o styleElems)>>)

(***************************************************************************)
(* The files the model is run on                                           *)
(***************************************************************************)
MaxStyles == 2          \* the most style definitions in a well-formed styles part

MaxParsedStyles == 1    \* the most style definitions before the error of a malformed one

sHeading1   == <<"H","e","a","d","i","n","g","1">>
sMyHEADING  == <<"M","y","H","E","A","D","I","N","G">>
sTableNorm  == <<"T","a","b","l","e","N","o","r","m","a","l">>
sCaption    == <<"C","a","p","t","i","o","n">>
sNormal     == <<"N","o","r","m","a","l">>
sLowNormal  == <<"n","o","r","m","a","l">>
sHeading1Nm == <<"h","e","a","d","i","n","g"," ","1">>
sTimes      == <<"T","i","m","e","s"," ","N","e","w"," ","R","o","m","a","n">>
sSimSun     == <<"S","i","m","S","u","n">>
sCenter     == <<"c","e","n","t","e","r">>
sAuto       == <<"a","u","t","o">>
sExact      == <<"e","x","a","c","t">>

\* styles that differ in what the relevance filter reads: identifier and name
FilterStyleDefs ==
    {StyleDef(Some(id), Null, Null, Null) :
        id \in {sHeading1, sMyHEADING, sTableNorm}}
    \cup
    {StyleDef(Some(sCaption), nm, Null, Null) :
        nm \in {Null, Some(Null), Some(Some(sNormal)),
                Some(Some(sLowNormal)), Some(Some(sHeading1Nm))}}
    \cup
    {StyleDef(Null, nm, Null, Null) : nm \in {Null, Some(Some(sNormal))}}
    \cup
    \* a heading whose name element carries no value
    {StyleDef(Some(sHeading1), Some(Null), Null, Null)}

FontsChoices ==
    {Null,
     Some(Fonts(Some(sTimes), Some(sSimSun))),
     Some(Fonts(Null, Some(sSimSun))),
     Some(Fonts(Null, Null)),
     Some(Fonts(Some(<<>>), Some(sSimSun)))}

SizeChoices ==
    {Some(Some(<<"2","4">>)), Some(Some(<<"2","1">>)), Some(Some(<<"1","0","5">>)),
     Some(Null), Some(Some(<<>>)), Some(Some(<<"1","2","p","t">>))}

BoldChoices ==
    {Some(Null), Some(Some(<<"0">>)), Some(Some(<<"1">>)),
     Some(Some(<<"f","a","l","s","e">>))}

\* heading styles that differ in their run properties, one kind at a time,
\* and the heading with all three
RunStyleDefs ==
    {StyleDef(Some(sHeading1), Some(Some(sHeading1Nm)),
              Some(RunProperties(f, Null, Null)), Null) : f \in FontsChoices}
    \cup
    {StyleDef(Some(sHeading1), Some(Some(sHeading1Nm)),
              Some(RunProperties(Null, z, Null)), Null) : z \in SizeChoices}
    \cup
    {StyleDef(Some(sHeading1), Some(Some(sHeading1Nm)),
              Some(RunProperties(Null, Null, b)), Null) : b \in BoldChoices}
    \cup
    {StyleDef(Some(sHeading1), Some(Some(sHeading1Nm)),
              Some(RunProperties(Some(Fonts(Some(sTimes), Some(sSimSun))),
                                 Some(Some(<<"2","4">>)), Some(Null))), Null),
     StyleDef(Some(sCaption), Null,
              Some(RunProperties(Some(Fonts(Some(sTimes), Some(sSimSun))),
                                 Some(Some(<<"2","4">>)), Some(Null))),
              Some(ParagraphProperties(Some(Spacing(Some(<<"3","6","0">>), Some(sAuto))),
                                       Some(Some(sCenter)))))}

SpacingChoices ==
    {Some(Spacing(Some(<<"3","6","0">>), Some(sAuto))),
     Some(Spacing(Some(<<"2","4","0">>), Null)),
     Some(Spacing(Null, Some(sExact))),
     Some(Spacing(Null, Null))}

JcChoices == {Some(Some(sCenter)), Some(Null)}

\* Normal styles that differ in their paragraph properties
ParagraphStyleDefs ==
    {StyleDef(Some(sNormal), Null, Null, Some(ParagraphProperties(sp, Null))) :
        sp \in SpacingChoices \cup {Null}}
    \cup
    {StyleDef(Some(sNormal), Null, Null, Some(ParagraphProperties(Null, jc))) :
        jc \in JcChoices}
    \cup
    {StyleDef(Some(sNormal), Null, Null,
              Some(ParagraphProperties(Some(Spacing(Some(<<"3","6","0">>), Some(sAuto))),
                                       Some(Some(sCenter)))))}

StyleDefs == FilterStyleDefs \cup RunStyleDefs \cup ParagraphStyleDefs

\* the sequences over S of length at most n
SeqsUpTo(S, n) == UNION {[1..k -> S] : k \in 0..n}

NoText == [empty |-> TRUE, wellFormed |-> FALSE, styles |-> <<>>]

Files ==
    \* not a ZIP container
    {[zip |-> FALSE, part |-> "absent", text |-> NoText]}
    \cup
    \* a ZIP container without word/styles.xml; one whose word/styles.xml
    \* cannot be decompressed; one whose word/styles.xml is empty
    {[zip |-> TRUE, part |-> p, text |-> NoText] :
        p \in {"absent", "unreadable", "present"}}
    \cup
    \* a ZIP container whose word/styles.xml is well-formed XML
    {[zip |-> TRUE, part |-> "present",
      text |-> [empty |-> FALSE, wellFormed |-> TRUE, styles |-> ss]] :
        ss \in SeqsUpTo(StyleDefs, MaxStyles)}
    \cup
    \* a ZIP container whose word/styles.xml is not well-formed XML
    {[zip |-> TRUE, part |-> "present",
      text |-> [empty |-> FALSE, wellFormed |-> FALSE, styles |-> ss]] :
        ss \in SeqsUpTo(StyleDefs, MaxParsedStyles)}

(***************************************************************************)
(* parseDocxStyles and its caller                                          *)
(***************************************************************************)
Pending == [kind |-> "pending", value |-> <<>>]

Resolved(v) == [kind |-> "resolved", value |-> v]

Rejected == [kind |-> "rejected", value |-> <<>>]

\* what the body of the try block ends with
Return(v) == [kind |-> "return", value |-> v]

Throw == [kind |-> "throw", value |-> <<>>]

\* a mutant of TryCatch: the exception is thrown on to the caller
TryCatchRethrows(completion) ==
    IF completion.kind = "throw" THEN Rejected ELSE Resolved(completion.value)

\* a mutant of TryCatch: the catch block returns the other fallback string
TryCatchNotFound(completion) ==
    IF completion.kind = "throw"
    THEN Resolved(<<LitNotFound>>)
    ELSE Resolved(completion.value)

\* try { ... } catch (e) { console.error(...); return <parse failed> }
TryCatch(completion) ==
    IF completion.kind = "throw"
    THEN Resolved(<<LitParseFailed>>)
    ELSE Resolved(completion.value)

\* await JSZip.loadAsync(file): throws when the file is not a ZIP container
LoadAsyncThrows(f) == ~f.zip

\* a mutant of AfterRead: a missing styles part is left to the parser
AfterReadNoCheck(f, eng) ==
    IF f.part = "unreadable" THEN Throw
    ELSE IF f.part = "absent" THEN Throw
    ELSE Return(GenerateReport(ParseFromString(f.text, eng)))

\* from `await zip.file("word/styles.xml")?.async("text")` to the end of
\* the try block: stylesXml is undefined when the entry is absent, the
\* await throws when the entry cannot be read, and !stylesXml holds of
\* undefined and of the empty string
AfterRead(f, eng) ==
    IF f.part = "unreadable" THEN Throw
    ELSE IF f.part = "absent" \/ f.text.empty THEN Return(<<LitNotFound>>)
    ELSE Return(GenerateReport(ParseFromString(f.text, eng)))

\* no invocation other than the one of pc, file and result
NoInvocations ==
    /\ engine = "blink"
    /\ invocations = <<>>
    /\ frames = <<>>

\* analyzeText and fixText have not been called
NoAnalyzeCalls ==
    /\ apiKey = TRUE
    /\ analyzeCalls = <<>>
    /\ fixCalls = <<>>

\* a handler of App with its argument, or "settled" for the continuation
\* of an await, or "input" for a handler of the upload screen
Event(handler, arg) == <<handler, arg>>

\* enum AppStep
AppStep == {"UPLOAD", "ANALYZING", "REPORT", "FIXING", "RESULT"}

\* the state of App after its first render: the useState and useRef
\* initial values
AppConstructed ==
    /\ currentStep = "UPLOAD"
    /\ thesisText = <<>>
    /\ thesisHtml = <<>>
    /\ formatRequirements = <<>>
    /\ formatFileBase64 = Null
    /\ analysisResult = Null
    /\ inputsChanged = FALSE
    /\ fixedText = <<>>
    /\ isLoading = FALSE
    /\ isExtractingRules = FALSE
    /\ abortControllerRef = 0
    /\ tasks = {}
    /\ lastEvent = Event("render", "")

Init ==
    /\ pc = "idle"
    /\ file \in Files
    /\ result = Pending
    /\ thesisStyleAnalysis = <<>>
    /\ NoInvocations
    /\ NoAnalyzeCalls
    /\ AppConstructed

\* parseDocxStyles(file) is called and runs to its first await
Call ==
    /\ pc = "idle"
    /\ pc' = "loadAsync"
    /\ UNCHANGED <<file, result, thesisStyleAnalysis>>
    /\ UNCHANGED <<invVars, analyzeVars, appVars>>

\* JSZip.loadAsync settles
LoadAsyncSettles ==
    /\ pc = "loadAsync"
    /\ IF LoadAsyncThrows(file)
       THEN /\ result' = TryCatch(Throw)
            /\ pc' = "settled"
       ELSE /\ result' = result
            /\ pc' = "readStyles"
    /\ UNCHANGED <<file, thesisStyleAnalysis>>
    /\ UNCHANGED <<invVars, analyzeVars, appVars>>

\* the read of word/styles.xml settles and the function runs to its end,
\* with the DOMParser of the browser it runs in
ReadStylesSettles ==
    /\ pc = "readStyles"
    /\ \E eng \in Engines : result' = TryCatch(AfterRead(file, eng))
    /\ pc' = "settled"
    /\ UNCHANGED <<file, thesisStyleAnalysis>>
    /\ UNCHANGED <<invVars, analyzeVars, appVars>>

\* handleThesisFileUpload resumes after `await parseDocxStyles(file)`:
\* setThesisStyleAnalysis(styleReport), or its catch block when rejected
CallerResumes ==
    /\ pc = "settled"
    /\ thesisStyleAnalysis' =
           IF result.kind = "resolved" THEN result.value ELSE thesisStyleAnalysis
    /\ pc' = "returned"
    /\ UNCHANGED <<file, result>>
    /\ UNCHANGED <<invVars, analyzeVars, appVars>>

Next == Call \/ LoadAsyncSettles \/ ReadStylesSettles \/ CallerResumes

Spec == Init /\ [][Next]_vars

(***************************************************************************)
(* Several invocations of parseDocxStyles in one browser session: each is  *)
(* an activation of the async function with its own locals, and the steps  *)
(* of different activations interleave at the awaits.                      *)
(***************************************************************************)
NumInvocations == 3     \* the invocations of one session

\* the heading style of the session's files, and two paragraph styles it
\* can be based on
SessionHeading ==
    StyleDef(Some(sHeading1), Some(Some(sHeading1Nm)),
             Some(RunProperties(Some(Fonts(Some(sTimes), Some(sSimSun))),
                                Some(Some(<<"2","4">>)), Some(Null))),
             Null)

SessionNormal ==
    StyleDef(Some(sNormal), Null,
             Some(RunProperties(Null, Some(Some(<<"2","1">>)), Null)),
             Some(ParagraphProperties(Some(Spacing(Some(<<"3","6","0">>), Some(sAuto))),
                                      Some(Some(sCenter)))))

SessionNormalBold ==
    StyleDef(Some(sNormal), Null,
             Some(RunProperties(Null, Null, Some(Null))),
             Some(ParagraphProperties(Null, Some(Some(sCenter)))))

\* styles parts with the heading style: alone, after a paragraph style
\* and based on it, and after another paragraph style and based on nothing
BasedOnFiles ==
    {[zip |-> TRUE, part |-> "present",
      text |-> [empty |-> FALSE, wellFormed |-> TRUE,
                styles |-> <<SessionHeading>>]],
     [zip |-> TRUE, part |-> "present",
      text |-> [empty |-> FALSE, wellFormed |-> TRUE,
                styles |-> <<SessionNormal,
                             BasedOn(SessionHeading, Some(sNormal))>>]],
     [zip |-> TRUE, part |-> "present",
      text |-> [empty |-> FALSE, wellFormed |-> TRUE,
                styles |-> <<SessionNormalBold, SessionHeading>>]]}

\* the files of the session: not a ZIP container, a package without a
\* styles part, a well-formed styles part and a malformed one
SessionFiles ==
    {[zip |-> FALSE, part |-> "absent", text |-> NoText],
     [zip |-> TRUE, part |-> "absent", text |-> NoText],
     [zip |-> TRUE, part |-> "present",
      text |-> [empty |-> FALSE, wellFormed |-> TRUE,
                styles |-> <<SessionHeading>>]],
     [zip |-> TRUE, part |-> "present",
      text |-> [empty |-> FALSE, wellFormed |-> FALSE,
                styles |-> <<StyleDef(Some(sNormal), Null, Null,
                                      Some(ParagraphProperties(
                                          Null, Some(Some(sCenter)))))>>]]}

Invocation(st, f, r) == [pc |-> st, file |-> f, result |-> r]

\* a mutant of Frame: `zip` is one variable of the module, shared by all
\* activations
FrameShared(i) == 1

\* `const zip`, a local of the async function: one per activation
Frame(i) == i

\* parseDocxStyles alone on file f: what the promise settles with
RunAlone(f, eng) ==
    TryCatch(IF LoadAsyncThrows(f) THEN Throw ELSE AfterRead(f, eng))

\* no invocation through pc, file and result
NoSingleInvocation ==
    /\ pc = "idle"
    /\ file = [zip |-> FALSE, part |-> "absent", text |-> NoText]
    /\ result = Pending
    /\ thesisStyleAnalysis = <<>>

InitSession ==
    /\ engine \in Engines
    /\ invocations \in [1..NumInvocations ->
                            {Invocation("idle", f, Pending) : f \in SessionFiles}]
    /\ frames = [i \in 1..NumInvocations |-> Null]
    /\ NoSingleInvocation
    /\ NoAnalyzeCalls
    /\ AppConstructed

\* parseDocxStyles(file) is called and runs to its first await
InvocationCall(i) ==
    /\ invocations[i].pc = "idle"
    /\ invocations' = [invocations EXCEPT ![i].pc = "loadAsync"]
    /\ UNCHANGED <<engine, frames>>
    /\ UNCHANGED <<parseVars, analyzeVars, appVars>>

\* JSZip.loadAsync of invocation i settles: `zip` is assigned
InvocationLoadAsyncSettles(i) ==
    /\ invocations[i].pc = "loadAsync"
    /\ IF LoadAsyncThrows(invocations[i].file)
       THEN /\ invocations' = [invocations EXCEPT ![i].pc = "settled",
                                                  ![i].result = TryCatch(Throw)]
            /\ frames' = frames
       ELSE /\ invocations' = [invocations EXCEPT ![i].pc = "readStyles"]
            /\ frames' = [frames EXCEPT ![Frame(i)] = Some(invocations[i].file)]
    /\ UNCHANGED engine
    /\ UNCHANGED <<parseVars, analyzeVars, appVars>>

\* the read of word/styles.xml from `zip` settles and invocation i runs to
\* its end
InvocationReadStylesSettles(i) ==
    /\ invocations[i].pc = "readStyles"
    /\ invocations' =
           [invocations EXCEPT ![i].pc = "settled",
                               ![i].result =
                                   TryCatch(AfterRead(Get(frames[Frame(i)]), engine))]
    /\ UNCHANGED <<engine, frames>>
    /\ UNCHANGED <<parseVars, analyzeVars, appVars>>

NextSession ==
    \E i \in 1..NumInvocations :
        \/ InvocationCall(i)
        \/ InvocationLoadAsyncSettles(i)
        \/ InvocationReadStylesSettles(i)

SpecSession == InitSession /\ [][NextSession]_vars

\* a session whose files differ in the styles around one heading style
\* and in what that style is based on
InitBasedOn ==
    /\ engine \in Engines
    /\ invocations \in [1..NumInvocations ->
                            {Invocation("idle", f, Pending) : f \in BasedOnFiles}]
    /\ frames = [i \in 1..NumInvocations |-> Null]
    /\ NoSingleInvocation
    /\ NoAnalyzeCalls
    /\ AppConstructed

SpecBasedOn == InitBasedOn /\ [][NextSession]_vars

(***************************************************************************)
(* analyzeText (geminiService): JavaScript values, the text of a model     *)
(* response, and what the function does before and after its await         *)
(***************************************************************************)
\* a JavaScript value by its type and its content; the content is the
\* digits of a number, the characters of a string, the items of an array
JsVal(type, val) == [type |-> type, val |-> val]

Undefined == JsVal("undefined", <<>>)

JsNull == JsVal("null", <<>>)

JsNumber(digits) == JsVal("number", digits)

JsString(chars) == JsVal("string", chars)

JsArray(items) == JsVal("array", items)

JsObject == JsVal("object", <<>>)

\* what JSON.parse returns: a value of some type, with what reading its
\* properties score, summary and issues gives
Doc(type, score, summary, issues) ==
    [type |-> type, score |-> score, summary |-> summary, issues |-> issues]

\* errors by name and message
Error(name, message) == [name |-> name, message |-> message]

NoError == Error("", "")

AbortError == Error("AbortError", "Aborted")

ApiKeyError == Error("Error", "API Key not found")

SyntaxError == Error("SyntaxError", "Unexpected token in JSON")

TypeError == Error("TypeError", "Cannot read properties of null")

ServiceError == Error("ApiError", "503 Service Unavailable")

ThrowError(e) == [kind |-> "throw", value |-> e]

RejectedWith(e) == [kind |-> "rejected", value |-> e]

\* a response text is a sequence of pieces: code fences (three backquotes,
\* with or without the word json) and JSON bodies; a body is JSON text
\* that is valid (and then denotes a document) or not
Piece(tok, valid, doc) == [tok |-> tok, valid |-> valid, doc |-> doc]

NoDoc == Doc("undefined", Undefined, Undefined, Undefined)

FenceJson == Piece("fence:json", FALSE, NoDoc)

FencePlain == Piece("fence", FALSE, NoDoc)

Body(doc) == Piece("body", TRUE, doc)

Truncated == Piece("body", FALSE, NoDoc)

EmptyObject == Doc("object", Undefined, Undefined, Undefined)

\* response.text || "{}"
TextOrEmptyObject(text) == IF text = <<>> THEN <<Body(EmptyObject)>> ELSE text

IsFence(piece) == piece.tok \in {"fence:json", "fence"}

NotFence(piece) == ~IsFence(piece)

\* if the text includes a code fence (three backquotes), every fence with
\* the word json and then every other fence is replaced by nothing, and
\* the text is trimmed
StripFences(text) ==
    IF \E k \in 1..Len(text) : IsFence(text[k])
    THEN SelectSeq(text, NotFence)
    ELSE text

\* JSON.parse(text): the document of a text that is one valid body, a
\* SyntaxError for any other text
JsonParse(text) ==
    IF Len(text) = 1 /\ text[1].tok = "body" /\ text[1].valid
    THEN Return(text[1].doc)
    ELSE ThrowError(SyntaxError)

LitNoSummary == "analysis finished, but no summary was generated."

LitFailedSummary ==
    "the analysis could not be completed. make sure the uploaded file is legible."

\* the issue { id: "error-1", type: OTHER, severity: CRITICAL, ... } with
\* the description "service unavailable", and with the description
\* "response incomplete"
LitErrorIssueUnavailable == "error-1/OTHER/CRITICAL/unavailable"

LitErrorIssueIncomplete == "error-1/OTHER/CRITICAL/incomplete"

\* a mutant of ScoreOf: the score is taken as the model wrote it
ScoreOfUnchecked(parsed) == parsed.score

\* typeof parsed.score === 'number' ? parsed.score : 0
ScoreOf(parsed) ==
    IF parsed.score.type = "number" THEN parsed.score ELSE JsNumber(<<"0">>)

\* typeof parsed.summary === 'string' ? parsed.summary : <no summary>
SummaryOf(parsed) ==
    IF parsed.summary.type = "string"
    THEN parsed.summary
    ELSE JsString(<<LitNoSummary>>)

\* Array.isArray(parsed.issues) ? parsed.issues : []
IssuesOf(parsed) ==
    IF parsed.issues.type = "array" THEN parsed.issues ELSE JsArray(<<>>)

AnalysisResult(score, summary, issues) ==
    [score |-> score, summary |-> summary, issues |-> issues]

\* const result = { score: ..., summary: ..., issues: ... }: reading a
\* property of null throws a TypeError
BuildResult(parsed) ==
    IF parsed.type \in {"null", "undefined"}
    THEN ThrowError(TypeError)
    ELSE Return(AnalysisResult(ScoreOf(parsed), SummaryOf(parsed), IssuesOf(parsed)))

\* the return of the catch block
FallbackResult(error) ==
    AnalysisResult(
        JsNumber(<<"0">>),
        JsString(<<LitFailedSummary>>),
        JsArray(<<IF error.name = "SyntaxError"
                  THEN LitErrorIssueIncomplete
                  ELSE LitErrorIssueUnavailable>>))

\* what ai.models.generateContent settles with: a response with its text
\* (no pieces: the text is undefined or empty), or an error
Response(text) == [kind |-> "response", text |-> text, error |-> NoError]

Failure(e) == [kind |-> "error", text |-> <<>>, error |-> e]

NoOutcome == [kind |-> "none", text |-> <<>>, error |-> NoError]

FullDoc ==
    Doc("object", JsNumber(<<"8","5">>), JsString(<<"o","k">>),
        JsArray(<<"issue-1", "issue-2">>))

WrongTypesDoc == Doc("object", JsString(<<"8","5">>), JsNumber(<<"1">>), JsObject)

ScoreOnlyDoc == Doc("object", JsNumber(<<"8","5">>), Undefined, JsNull)

NullDoc == Doc("null", Undefined, Undefined, Undefined)

NumberDoc == Doc("number", Undefined, Undefined, Undefined)

ArrayDoc == Doc("array", Undefined, Undefined, Undefined)

AnalyzeOutcomes ==
    {Response(<<>>),
     Response(<<Body(FullDoc)>>),
     Response(<<FenceJson, Body(FullDoc), FencePlain>>),
     Response(<<FencePlain, Body(WrongTypesDoc), FencePlain>>),
     Response(<<Body(WrongTypesDoc)>>),
     Response(<<Body(EmptyObject)>>),
     Response(<<Body(ScoreOnlyDoc)>>),
     Response(<<Body(NullDoc)>>),
     Response(<<Body(NumberDoc)>>),
     Response(<<Body(ArrayDoc)>>),
     Response(<<Truncated>>),
     Response(<<FenceJson, Truncated>>),
     Response(<<FenceJson, FencePlain>>),
     Failure(ServiceError)}

\* a mutant of TryBody: the signal is not looked at after the await
TryBodyNoAbortCheck(signal, outcome) ==
    IF outcome.kind = "error" THEN ThrowError(outcome.error)
    ELSE LET parsed == JsonParse(StripFences(TextOrEmptyObject(outcome.text)))
         IN  IF parsed.kind = "throw" THEN parsed ELSE BuildResult(parsed.value)

\* the try block from the point where the await of generateContent settles
TryBody(signal, outcome) ==
    IF outcome.kind = "error" THEN ThrowError(outcome.error)
    ELSE IF signal = "aborted" THEN ThrowError(AbortError)
    ELSE LET parsed == JsonParse(StripFences(TextOrEmptyObject(outcome.text)))
         IN  IF parsed.kind = "throw" THEN parsed ELSE BuildResult(parsed.value)

\* catch (error): abort errors are thrown on, any other error gives the
\* fallback result
CatchBlock(completion) ==
    IF completion.kind = "throw"
    THEN IF \/ completion.value.name = "AbortError"
            \/ completion.value.message = "Aborted"
         THEN RejectedWith(completion.value)
         ELSE Resolved(FallbackResult(completion.value))
    ELSE Resolved(completion.value)

\* an activation of analyzeText: its signal ("none" when no signal was
\* passed, else "live" or "aborted"), whether the signal was aborted at the
\* call, whether getClient() returned a client, whether generateContent was
\* called, what generateContent settled with, whether the signal was
\* aborted then, and how the promise of analyzeText settled
AnalyzeCall(signal, atCall, client, sent, outcome, atResponse, settle) ==
    [signal |-> signal, abortedAtCall |-> atCall, clientCreated |-> client,
     requestSent |-> sent, outcome |-> outcome,
     abortedAtResponse |-> atResponse, settle |-> settle]

\* analyzeText from its call to its await: the abort check, getClient()
\* (which throws without an API key), the second abort check and the call
\* of generateContent
BeforeAwait(signal, key) ==
    IF signal = "aborted"
    THEN AnalyzeCall(signal, TRUE, FALSE, FALSE, NoOutcome, FALSE,
                     RejectedWith(AbortError))
    ELSE IF ~key
    THEN AnalyzeCall(signal, FALSE, FALSE, FALSE, NoOutcome, FALSE,
                     RejectedWith(ApiKeyError))
    ELSE AnalyzeCall(signal, FALSE, TRUE, TRUE, NoOutcome, FALSE, Pending)

\* analyzeText from the point where its await settles to its end
AfterAwait(call, outcome) ==
    [call EXCEPT !.outcome = outcome,
                 !.abortedAtResponse = (call.signal = "aborted"),
                 !.settle = CatchBlock(TryBody(call.signal, outcome))]

MaxCalls == 2           \* the calls of analyzeText in one run

\* analyzeText is called by itself: App is left as constructed
InitAnalyze ==
    /\ apiKey \in BOOLEAN
    /\ analyzeCalls = <<>>
    /\ fixCalls = <<>>
    /\ AppConstructed
    /\ NoInvocations
    /\ NoSingleInvocation

\* analyzeText(..., signal) is called and runs to its await, or to its end
CallAnalyzeText(signal) ==
    /\ Len(analyzeCalls) < MaxCalls
    /\ analyzeCalls' = Append(analyzeCalls, BeforeAwait(signal, apiKey))
    /\ UNCHANGED <<apiKey, fixCalls, parseVars, invVars, appVars>>

\* the owner of the signal aborts it while the call is in flight
SignalAborts(id) ==
    /\ analyzeCalls[id].signal = "live"
    /\ analyzeCalls[id].settle = Pending
    /\ analyzeCalls' = [analyzeCalls EXCEPT ![id].signal = "aborted"]
    /\ UNCHANGED <<apiKey, fixCalls, parseVars, invVars, appVars>>

\* generateContent settles and analyzeText runs to its end
GenerateContentSettles(id, outcome) ==
    /\ analyzeCalls[id].settle = Pending
    /\ analyzeCalls' = [analyzeCalls EXCEPT ![id] = AfterAwait(@, outcome)]
    /\ UNCHANGED <<apiKey, fixCalls, parseVars, invVars, appVars>>

NextAnalyze ==
    \/ \E signal \in {"none", "live", "aborted"} : CallAnalyzeText(signal)
    \/ \E id \in 1..Len(analyzeCalls) : SignalAborts(id)
    \/ \E id \in 1..Len(analyzeCalls) :
          \E outcome \in AnalyzeOutcomes : GenerateContentSettles(id, outcome)

SpecAnalyze == InitAnalyze /\ [][NextAnalyze]_vars

(***************************************************************************)
(* fixText, called by itself                                               *)
(***************************************************************************)

\* a mutant of FixTextAfterAwait: the text of the response is returned as
\* it is, and nothing after an error
FixTextNoFallback(text, outcome) == outcome.text

\* response.text || text, and text from the catch block
FixTextAfterAwait(text, outcome) ==
    IF outcome.kind = "response" /\ outcome.text # <<>>
    THEN outcome.text
    ELSE text

\* an activation of fixText: the text it was given, what generateContent
\* settled with, and how the promise of fixText settled
FixCall(text, outcome, settle) ==
    [text |-> text, outcome |-> outcome, settle |-> settle]

\* fixText from its call to its await: getClient() throws without an API
\* key, outside the try block
FixBeforeAwait(text, key) ==
    IF ~key
    THEN FixCall(text, NoOutcome, RejectedWith(ApiKeyError))
    ELSE FixCall(text, NoOutcome, Pending)

\* fixText from the point where its await settles to its end
FixAfterAwait(call, outcome) ==
    [call EXCEPT !.outcome = outcome,
                 !.settle = Resolved(FixTextAfterAwait(call.text, outcome))]

\* what generateContent settles with for fixText: a text, no text, or an
\* error
FixOutcomes == {Response(<<"x">>), Response(<<>>), Failure(ServiceError)}

\* the texts handed to fixText: empty, plain, and HTML
FixTexts == {<<>>, <<"a">>, <<"<","b",">","a","<","/","b",">">>}

MaxFixCalls == 2        \* the calls of fixText in one run

InitFix ==
    /\ apiKey \in BOOLEAN
    /\ analyzeCalls = <<>>
    /\ fixCalls = <<>>
    /\ AppConstructed
    /\ NoInvocations
    /\ NoSingleInvocation

\* fixText(text, issuesDescription) is called and runs to its await, or to
\* its end
CallFixText(text) ==
    /\ Len(fixCalls) < MaxFixCalls
    /\ fixCalls' = Append(fixCalls, FixBeforeAwait(text, apiKey))
    /\ UNCHANGED <<apiKey, analyzeCalls, parseVars, invVars, appVars>>

\* generateContent settles and fixText runs to its end
FixGenerateContentSettles(id, outcome) ==
    /\ fixCalls[id].settle = Pending
    /\ fixCalls' = [fixCalls EXCEPT ![id] = FixAfterAwait(@, outcome)]
    /\ UNCHANGED <<apiKey, analyzeCalls, parseVars, invVars, appVars>>

NextFix ==
    \/ \E text \in FixTexts : CallFixText(text)
    \/ \E id \in 1..Len(fixCalls) :
          \E outcome \in FixOutcomes : FixGenerateContentSettles(id, outcome)

SpecFix == InitFix /\ [][NextFix]_vars

(***************************************************************************)
(* App: the handlers of the component and the continuations of their       *)
(* awaits.  A continuation runs with the microtasks that follow it as one  *)
(* step; no other handler runs in between.                                 *)
(***************************************************************************)
RECURSIVE StripTrailingWhiteSpace(_)
StripTrailingWhiteSpace(s) ==
    IF s # <<>> /\ s[Len(s)] \in WhiteSpaceChars
    THEN StripTrailingWhiteSpace(SubSeq(s, 1, Len(s) - 1))
    ELSE s

\* String.prototype.trim
Trim(s) == StripTrailingWhiteSpace(StripLeadingWhiteSpace(s))

RECURSIVE StripTags(_)
\* s.replace(/<[^>]+>/g, ''): every "<", one or more characters other
\* than ">", and ">" is taken out
StripTags(s) ==
    IF s = <<>> THEN s
    ELSE LET closing == {j \in 3..Len(s) :
                            /\ s[j] = ">"
                            /\ \A k \in 2..(j - 1) : s[k] # ">"}
         IN  IF Head(s) = "<" /\ closing # {}
             THEN StripTags(SubSeq(s, (CHOOSE j \in closing : TRUE) + 1, Len(s)))
             ELSE <<Head(s)>> \o StripTags(Tail(s))

\* StepIndicator: the steps in the order they are shown
Steps == <<"UPLOAD", "ANALYZING", "REPORT", "FIXING", "RESULT">>

StepIndex(step) == CHOOSE k \in 1..Len(Steps) : Steps[k] = step

\* StepIndicator.isClickable: Upload always, any other step when it comes
\* before the current one; the button of a step that is not clickable is
\* disabled
IsClickable(step, current) ==
    step = "UPLOAD" \/ StepIndex(step) < StepIndex(current)

\* a mutant of StepAfterClick: the click is served while loading too
StepAfterClickWhileLoading(step, loading, res, current) ==
    IF step = "UPLOAD" THEN "UPLOAD"
    ELSE IF step = "REPORT" /\ res # Null THEN "REPORT"
    ELSE current

\* handleStepClick: the step shown after a click on `step`
StepAfterClick(step, loading, res, current) ==
    IF loading THEN current
    ELSE IF step = "UPLOAD" THEN "UPLOAD"
    ELSE IF step = "REPORT" /\ res # Null THEN "REPORT"
    ELSE current

\* a mutant of CanReuse: a result is never reused
CanReuseNever(res, changed) == FALSE

\* handleAnalyze: if (analysisResult && !inputsChanged)
CanReuse(res, changed) == res # Null /\ ~changed

\* a mutant of TextMissing: the test of the handler is the test of the
\* button, which takes the HTML of an uploaded document for text
TextMissingAsButton(text, html) == Trim(text) = <<>> /\ html = <<>>

\* handleAnalyze: if (!thesisText.trim())
TextMissing(text, html) == Trim(text) = <<>>

\* handleAnalyze: if (!formatRequirements.trim() && !formatFileBase64)
RequirementsMissing(req, file64) == Trim(req) = <<>> /\ file64 = Null

\* the disabled attribute of the analyze button
AnalyzeDisabled ==
    \/ (Trim(thesisText) = <<>> /\ thesisHtml = <<>>)
    \/ (Trim(formatRequirements) = <<>> /\ formatFileBase64 = Null)

MaxAnalyses == 1        \* the analyses that App starts in one run

\* what generateContent settles with for the analyses of App
AppOutcomes == {Response(<<Body(FullDoc)>>), Failure(ServiceError)}

\* handleStepClick(step), from a button of the StepIndicator
HandleStepClick(step) ==
    /\ IsClickable(step, currentStep)
    /\ currentStep' = StepAfterClick(step, isLoading, analysisResult, currentStep)
    /\ lastEvent' = Event("handleStepClick", step)
    /\ UNCHANGED <<thesisText, thesisHtml, formatRequirements, formatFileBase64,
                   analysisResult, inputsChanged, fixedText, isLoading,
                   isExtractingRules, abortControllerRef, tasks>>
    /\ UNCHANGED <<parseVars, invVars, analyzeVars>>

\* handleAnalyze after analyzeText has settled: the rest of the try block
\* or the catch block, and the finally block, for the controller `id`
AfterAnalyzeText(id, settle, ref) ==
    /\ IF settle.kind = "resolved"
       THEN /\ analysisResult' = Some(settle.value)
            /\ inputsChanged' = FALSE
            /\ currentStep' = "REPORT"
       ELSE /\ currentStep' =
                   IF \/ settle.value.name = "AbortError"
                      \/ settle.value.message = "Aborted"
                   THEN currentStep
                   ELSE "UPLOAD"
            /\ UNCHANGED <<analysisResult, inputsChanged>>
    /\ IF ref = id
       THEN isLoading' = FALSE /\ abortControllerRef' = 0
       ELSE isLoading' = isLoading /\ abortControllerRef' = ref

\* handleAnalyze, from the analyze button of the upload screen
HandleAnalyze ==
    /\ currentStep = "UPLOAD"
    /\ ~AnalyzeDisabled
    /\ lastEvent' = Event("handleAnalyze", "")
    /\ IF CanReuse(analysisResult, inputsChanged)
       THEN /\ currentStep' = "REPORT"
            /\ UNCHANGED <<analysisResult, inputsChanged, isLoading,
                           abortControllerRef, analyzeCalls>>
       ELSE IF \/ TextMissing(thesisText, thesisHtml)
               \/ RequirementsMissing(formatRequirements, formatFileBase64)
       THEN UNCHANGED <<currentStep, analysisResult, inputsChanged, isLoading,
                        abortControllerRef, analyzeCalls>>
       ELSE /\ Len(analyzeCalls) < MaxAnalyses
            /\ LET id   == Len(analyzeCalls) + 1
                   call == BeforeAwait("live", apiKey)
               IN  /\ analyzeCalls' = Append(analyzeCalls, call)
                   /\ IF call.settle = Pending
                      THEN /\ currentStep' = "ANALYZING"
                           /\ isLoading' = TRUE
                           /\ abortControllerRef' = id
                           /\ UNCHANGED <<analysisResult, inputsChanged>>
                      ELSE AfterAnalyzeText(id, call.settle, id)
    /\ UNCHANGED <<thesisText, thesisHtml, formatRequirements, formatFileBase64,
                   fixedText, isExtractingRules, tasks>>
    /\ UNCHANGED <<parseVars, invVars, apiKey, fixCalls>>

\* generateContent settles for the analysis of controller `id`; analyzeText
\* and then handleAnalyze run to their ends
AnalysisSettles(id, outcome) ==
    /\ analyzeCalls[id].settle = Pending
    /\ LET call == AfterAwait(analyzeCalls[id], outcome)
       IN  /\ analyzeCalls' = [analyzeCalls EXCEPT ![id] = call]
           /\ AfterAnalyzeText(id, call.settle, abortControllerRef)
    /\ lastEvent' = Event("settled", "")
    /\ UNCHANGED <<thesisText, thesisHtml, formatRequirements, formatFileBase64,
                   fixedText, isExtractingRules, tasks>>
    /\ UNCHANGED <<parseVars, invVars, apiKey, fixCalls>>

\* handleCancelAnalysis, from the cancel button of the loading screen
HandleCancelAnalysis ==
    /\ currentStep = "ANALYZING"
    /\ IF abortControllerRef # 0
       THEN /\ analyzeCalls' =
                   [analyzeCalls EXCEPT ![abortControllerRef].signal = "aborted"]
            /\ abortControllerRef' = 0
       ELSE UNCHANGED <<analyzeCalls, abortControllerRef>>
    /\ isLoading' = FALSE
    /\ currentStep' = "UPLOAD"
    /\ lastEvent' = Event("handleCancelAnalysis", "")
    /\ UNCHANGED <<thesisText, thesisHtml, formatRequirements, formatFileBase64,
                   analysisResult, inputsChanged, fixedText, isExtractingRules,
                   tasks>>
    /\ UNCHANGED <<parseVars, invVars, apiKey, fixCalls>>

\* an await of a handler that has not settled: the kind of the handler, the
\* await it stands at, and the HTML and text it carries
Task(kind, stage, html, text) == <<kind, stage, html, text>>

TaskKind(t) == t[1]

TaskHtml(t) == t[3]

TaskText(t) == t[4]

Waiting(kind) == \E t \in tasks : TaskKind(t) = kind

\* what the user types into the two text areas
ThesisTexts == {<<>>, <<" ">>, <<"a">>}

RequirementTexts == {<<>>, <<" ">>, <<"r">>}

\* SAMPLE_TEXT.trim() and SAMPLE_FORMAT_REQUIREMENTS.trim()
SampleText == <<"a">>

SampleRequirements == <<"r">>

\* the .docx document the user uploads, by what mammoth makes of it: a
\* picture in a paragraph, without any text
DocxDocuments ==
    {Task("docx", "convertToHtml",
          <<"<","p",">","<","i","m","g"," ","/",">","<","/","p",">">>, <<>>)}

\* the text files the user uploads
TxtDocuments == {Task("txt", "readAsText", <<>>, <<"a">>)}

\* the package of the uploaded .docx documents, as parseDocxStyles reads it
DocxPackage ==
    [zip |-> TRUE, part |-> "present",
     text |-> [empty |-> FALSE, wellFormed |-> TRUE,
               styles |-> <<StyleDef(Some(sNormal), Null, Null,
                                     Some(ParagraphProperties(
                                         Null, Some(Some(sCenter)))))>>]]

\* what generateContent settles with for extractFormatRulesFromImage
ExtractOutcomes == {Response(<<"x">>), Failure(ServiceError)}

\* the user waits for an upload to be read before the next upload
Uploading == \E t \in tasks : TaskKind(t) \in {"docx", "txt", "format", "extract"}

MaxRequirementsLen == 2     \* a format file is uploaded while the
                            \* requirements are shorter than this

\* onChange of the thesis text area
EditThesisText(t) ==
    /\ currentStep = "UPLOAD"
    /\ t # thesisText
    /\ thesisText' = t
    /\ inputsChanged' = TRUE
    /\ lastEvent' = Event("input", "")
    /\ UNCHANGED <<currentStep, thesisHtml, formatRequirements, formatFileBase64,
                   analysisResult, fixedText, isLoading, isExtractingRules,
                   abortControllerRef, tasks>>
    /\ UNCHANGED <<parseVars, invVars, analyzeVars>>

\* onChange of the requirements text area, disabled during the extraction
EditFormatRequirements(r) ==
    /\ currentStep = "UPLOAD"
    /\ ~isExtractingRules
    /\ r # formatRequirements
    /\ formatRequirements' = r
    /\ inputsChanged' = TRUE
    /\ lastEvent' = Event("input", "")
    /\ UNCHANGED <<currentStep, thesisText, thesisHtml, formatFileBase64,
                   analysisResult, fixedText, isLoading, isExtractingRules,
                   abortControllerRef, tasks>>
    /\ UNCHANGED <<parseVars, invVars, analyzeVars>>

\* loadSample, with the clearFormatFile it calls
LoadSample ==
    /\ currentStep = "UPLOAD"
    /\ thesisText' = SampleText
    /\ thesisHtml' = <<>>
    /\ thesisStyleAnalysis' = <<>>
    /\ formatRequirements' = SampleRequirements
    /\ formatFileBase64' = Null
    /\ inputsChanged' = TRUE
    /\ lastEvent' = Event("input", "")
    /\ UNCHANGED <<currentStep, analysisResult, fixedText, isLoading,
                   isExtractingRules, abortControllerRef, tasks>>
    /\ UNCHANGED <<pc, file, result, invVars, analyzeVars>>

\* resetApp, from the result screen; the clearFormatFile it calls last
\* sets inputsChanged
ResetApp ==
    /\ currentStep = "RESULT"
    /\ currentStep' = "UPLOAD"
    /\ analysisResult' = Null
    /\ inputsChanged' = TRUE
    /\ fixedText' = <<>>
    /\ thesisText' = <<>>
    /\ thesisHtml' = <<>>
    /\ thesisStyleAnalysis' = <<>>
    /\ formatRequirements' = <<>>
    /\ formatFileBase64' = Null
    /\ lastEvent' = Event("input", "")
    /\ UNCHANGED <<isLoading, isExtractingRules, abortControllerRef, tasks>>
    /\ UNCHANGED <<pc, file, result, invVars, analyzeVars>>

\* onCancel of the report: () => setCurrentStep(AppStep.UPLOAD)
ReportCancel ==
    /\ currentStep = "REPORT" /\ analysisResult # Null
    /\ currentStep' = "UPLOAD"
    /\ lastEvent' = Event("input", "")
    /\ UNCHANGED <<thesisText, thesisHtml, formatRequirements, formatFileBase64,
                   analysisResult, inputsChanged, fixedText, isLoading,
                   isExtractingRules, abortControllerRef, tasks>>
    /\ UNCHANGED <<parseVars, invVars, analyzeVars>>

\* clearFormatFile, from the button shown with an attached format file
ClearFormatFile ==
    /\ currentStep = "UPLOAD" /\ formatFileBase64 # Null
    /\ formatFileBase64' = Null
    /\ inputsChanged' = TRUE
    /\ lastEvent' = Event("input", "")
    /\ UNCHANGED <<currentStep, thesisText, thesisHtml, formatRequirements,
                   analysisResult, fixedText, isLoading, isExtractingRules,
                   abortControllerRef, tasks>>
    /\ UNCHANGED <<parseVars, invVars, analyzeVars>>

\* thesisHtml && thesisHtml.length > 0 ? thesisHtml : thesisText
ContentOf(html, text) == IF html # <<>> THEN html ELSE text

\* handleFix, from the fix button of the report, which is disabled for a
\* result without issues; without an API key getClient() throws, fixText
\* rejects, and the catch and finally blocks run
HandleFix ==
    /\ currentStep = "REPORT" /\ analysisResult # Null
    /\ Get(analysisResult).issues.val # <<>>
    /\ ~Waiting("fix")
    /\ IF apiKey
       THEN /\ currentStep' = "FIXING"
            /\ isLoading' = TRUE
            /\ tasks' = tasks \cup
                   {Task("fix", "generateContent", <<>>,
                         ContentOf(thesisHtml, thesisText))}
       ELSE /\ currentStep' = "REPORT"
            /\ isLoading' = FALSE
            /\ tasks' = tasks
    /\ lastEvent' = Event("handleFix", "")
    /\ UNCHANGED <<thesisText, thesisHtml, formatRequirements, formatFileBase64,
                   analysisResult, inputsChanged, fixedText, isExtractingRules,
                   abortControllerRef>>
    /\ UNCHANGED <<parseVars, invVars, analyzeVars>>

\* generateContent settles for fixText; fixText and handleFix run to their
\* ends
FixSettles(outcome) ==
    \E t \in tasks :
        /\ TaskKind(t) = "fix"
        /\ tasks' = tasks \ {t}
        /\ fixedText' = StripTags(FixTextAfterAwait(TaskText(t), outcome))
        /\ currentStep' = "RESULT"
        /\ isLoading' = FALSE
        /\ lastEvent' = Event("settled", "")
        /\ UNCHANGED <<thesisText, thesisHtml, formatRequirements,
                       formatFileBase64, analysisResult, inputsChanged,
                       isExtractingRules, abortControllerRef>>
        /\ UNCHANGED <<parseVars, invVars, analyzeVars>>

\* handleThesisFileUpload to its first await (a .docx document) or to
\* reader.readAsText (any other file)
ThesisFileChosen(t) ==
    /\ currentStep = "UPLOAD"
    /\ ~Uploading
    /\ tasks' = tasks \cup {t}
    /\ inputsChanged' = TRUE
    /\ lastEvent' = Event("input", "")
    /\ UNCHANGED <<currentStep, thesisText, thesisHtml, formatRequirements,
                   formatFileBase64, analysisResult, fixedText, isLoading,
                   isExtractingRules, abortControllerRef>>
    /\ UNCHANGED <<parseVars, invVars, analyzeVars>>

\* the awaits of handleThesisFileUpload settle, one after the other:
\* file.arrayBuffer() and mammoth.convertToHtml, mammoth.extractRawText,
\* parseDocxStyles; the handler ends in its catch block at the first that
\* rejects (`failing`, "none" when all resolve)
DocxSettles(failing) ==
    \E t \in tasks :
        /\ TaskKind(t) = "docx"
        /\ tasks' = tasks \ {t}
        /\ thesisHtml' =
              IF failing # "convertToHtml" THEN TaskHtml(t) ELSE thesisHtml
        /\ thesisText' =
              IF failing = "none" THEN TaskText(t) ELSE thesisText
        /\ thesisStyleAnalysis' =
              IF failing = "none"
              THEN RunAlone(DocxPackage, engine).value
              ELSE thesisStyleAnalysis
        /\ lastEvent' = Event("settled", "")
        /\ UNCHANGED <<currentStep, formatRequirements, formatFileBase64,
                       analysisResult, inputsChanged, fixedText, isLoading,
                       isExtractingRules, abortControllerRef>>
        /\ UNCHANGED <<pc, file, result, invVars, analyzeVars>>

\* reader.onload of handleThesisFileUpload for a text file
TxtLoaded ==
    \E t \in tasks :
        /\ TaskKind(t) = "txt"
        /\ tasks' = tasks \ {t}
        /\ thesisText' = TaskText(t)
        /\ thesisHtml' = <<>>
        /\ thesisStyleAnalysis' = <<>>
        /\ lastEvent' = Event("settled", "")
        /\ UNCHANGED <<currentStep, formatRequirements, formatFileBase64,
                       analysisResult, inputsChanged, fixedText, isLoading,
                       isExtractingRules, abortControllerRef>>
        /\ UNCHANGED <<pc, file, result, invVars, analyzeVars>>

\* handleFormatFileUpload to reader.readAsDataURL: a file that is neither
\* a PDF nor an image is refused with an alert
FormatFileChosen(supported) ==
    /\ currentStep = "UPLOAD"
    /\ ~Uploading
    /\ Len(formatRequirements) < MaxRequirementsLen
    /\ IF supported
       THEN /\ inputsChanged' = TRUE
            /\ tasks' = tasks \cup {Task("format", "readAsDataURL", <<>>, <<>>)}
       ELSE UNCHANGED <<inputsChanged, tasks>>
    /\ lastEvent' = Event("input", "")
    /\ UNCHANGED <<currentStep, thesisText, thesisHtml, formatRequirements,
                   formatFileBase64, analysisResult, fixedText, isLoading,
                   isExtractingRules, abortControllerRef>>
    /\ UNCHANGED <<parseVars, invVars, analyzeVars>>

\* reader.onloadend of handleFormatFileUpload, to the await of
\* extractFormatRulesFromImage; without an API key getClient() throws, the
\* extraction rejects, and the catch and finally blocks run
FormatFileLoaded ==
    \E t \in tasks :
        /\ TaskKind(t) = "format"
        /\ formatFileBase64' = Some(<<"d","a","t","a">>)
        /\ IF apiKey
           THEN /\ isExtractingRules' = TRUE
                /\ tasks' = (tasks \ {t}) \cup
                       {Task("extract", "generateContent", <<>>, <<>>)}
           ELSE /\ isExtractingRules' = FALSE
                /\ tasks' = tasks \ {t}
        /\ lastEvent' = Event("formatFileLoaded", IF apiKey THEN "" ELSE "error")
        /\ UNCHANGED <<currentStep, thesisText, thesisHtml, formatRequirements,
                       analysisResult, inputsChanged, fixedText, isLoading,
                       abortControllerRef>>
        /\ UNCHANGED <<parseVars, invVars, analyzeVars>>

\* setFormatRequirements(prev => !prev ? extracted : prev + "\n\n" + extracted)
WithExtractedRules(prev, extracted) ==
    IF prev = <<>> THEN extracted ELSE prev \o <<"\n", "\n">> \o extracted

\* a mutant of RulesAfterExtraction: a failed extraction empties the
\* requirements
RulesLostOnFailure(prev, outcome) ==
    IF outcome.kind = "response"
    THEN WithExtractedRules(prev, outcome.text)
    ELSE <<>>

\* the requirements after the try block of reader.onloadend: the catch
\* block leaves them as they are
RulesAfterExtraction(prev, outcome) ==
    IF outcome.kind = "response"
    THEN WithExtractedRules(prev, outcome.text)
    ELSE prev

\* generateContent settles for extractFormatRulesFromImage; the function
\* and the handler run to their ends
ExtractionSettles(outcome) ==
    \E t \in tasks :
        /\ TaskKind(t) = "extract"
        /\ tasks' = tasks \ {t}
        /\ formatRequirements' = RulesAfterExtraction(formatRequirements, outcome)
        /\ isExtractingRules' = FALSE
        /\ lastEvent' = Event("extractionSettled", outcome.kind)
        /\ UNCHANGED <<currentStep, thesisText, thesisHtml, formatFileBase64,
                       analysisResult, inputsChanged, fixedText, isLoading,
                       abortControllerRef>>
        /\ UNCHANGED <<parseVars, invVars, analyzeVars>>

\* App is mounted, with or without an API key in the build
InitApp ==
    /\ apiKey \in BOOLEAN
    /\ analyzeCalls = <<>>
    /\ fixCalls = <<>>
    /\ AppConstructed
    /\ NoInvocations
    /\ NoSingleInvocation

NextApp ==
    \/ \E step \in AppStep : HandleStepClick(step)
    \/ HandleAnalyze
    \/ \E id \in 1..Len(analyzeCalls) :
          \E outcome \in AppOutcomes : AnalysisSettles(id, outcome)
    \/ HandleCancelAnalysis
    \/ HandleFix
    \/ \E outcome \in FixOutcomes : FixSettles(outcome)
    \/ ReportCancel
    \/ ResetApp
    \/ LoadSample
    \/ \E t \in ThesisTexts : EditThesisText(t)
    \/ \E r \in RequirementTexts : EditFormatRequirements(r)
    \/ \E t \in DocxDocuments \cup TxtDocuments : ThesisFileChosen(t)
    \/ \E failing \in {"none", "convertToHtml", "extractRawText"} :
          DocxSettles(failing)
    \/ TxtLoaded
    \/ \E supported \in BOOLEAN : FormatFileChosen(supported)
    \/ FormatFileLoaded
    \/ \E outcome \in ExtractOutcomes : ExtractionSettles(outcome)
    \/ ClearFormatFile

SpecApp == InitApp /\ [][NextApp]_vars

(***************************************************************************)
(* Reading a report back: its blocks and the fields of a block             *)
(***************************************************************************)
Settled == pc \in {"settled", "returned"}

\* the invocation has ended on a file whose styles part is well-formed XML
ReportSettled ==
    /\ Settled
    /\ file.zip /\ file.part = "present"
    /\ ~file.text.empty /\ file.text.wellFormed

Min(S) == CHOOSE k \in S : \A j \in S : k <= j

Positions(r, lit) == {k \in 1..Len(r) : r[k] = lit}

HasLit(r, lit) == Positions(r, lit) # {}

\* the n-th position of lit in r
NthPosition(r, lit, n) ==
    CHOOSE k \in Positions(r, lit) :
        Cardinality({j \in Positions(r, lit) : j <= k}) = n

\* the blocks of a report: each runs from a style-name piece to the next
BlocksOf(r) ==
    LET count == Cardinality(Positions(r, LitStyleName))
    IN  [n \in 1..count |->
            SubSeq(r, NthPosition(r, LitStyleName, n),
                   IF n = count THEN Len(r)
                   ELSE NthPosition(r, LitStyleName, n + 1) - 1)]

\* the characters of block b between its first piece `from` and the next
\* piece `to` after it
Field(b, from, to) ==
    LET i == Min(Positions(b, from))
        j == Min({k \in Positions(b, to) : k > i})
    IN  SubSeq(b, i + 1, j - 1)

\* the characters of block b after its first piece `from`, to its end
LastField(b, from) == SubSeq(b, Min(Positions(b, from)) + 1, Len(b))

\* two characters are the same letter, whatever their case
SameLetter(a, b) ==
    \/ a = b
    \/ \E j \in 1..Len(UpperChars) : {a, b} = {UpperChars[j], LowerChars[j]}

\* s contains the word, case-insensitively
ContainsIgnoringCase(s, word) ==
    \E i \in 1..(Len(s) - Len(word) + 1) :
        \A k \in 1..Len(word) : SameLetter(s[i + k - 1], word[k])

\* the display name of a style definition: the value of its name element,
\* the identifier when it has no name element
DisplayName(d) == IF d.name # Null THEN Get(d.name) ELSE d.styleId

\* the relevance filter, in the words of the specification
Relevant(d) ==
    \/ /\ d.styleId # Null
       /\ \/ ContainsIgnoringCase(Get(d.styleId), <<"h","e","a","d","i","n","g">>)
          \/ ContainsIgnoringCase(Get(d.styleId), <<"n","o","r","m","a","l">>)
    \/ DisplayName(d) = Some(sNormal)

\* the relevant style definitions of the file, in source order
RelevantStyles == SelectSeq(file.text.styles, Relevant)

Blocks == BlocksOf(result.value)

(***************************************************************************)
(* C1: a valid ZIP without a word/styles.xml entry makes parseDocxStyles   *)
(* resolve with exactly the "part not found" string; it does not reject.   *)
(***************************************************************************)
C1_MissingPartGivesNotFound ==
    (Settled /\ file.zip /\ file.part = "absent")
        => result = Resolved(<<LitNotFound>>)

C1_Witness ==
    /\ pc = "settled" /\ file.zip /\ file.part = "absent"
    /\ result.kind = "resolved" /\ result.value = <<LitNotFound>>

(***************************************************************************)
(* C2: a word/styles.xml that is present but not well-formed XML makes     *)
(* parseDocxStyles return exactly the "parse failure" string, not a report *)
(* header and not the "part not found" string.                             *)
(***************************************************************************)
C2_MalformedXmlGivesParseFailed ==
    (Settled /\ file.zip /\ file.part = "present"
        /\ ~file.text.empty /\ ~file.text.wellFormed)
        => result = Resolved(<<LitParseFailed>>)

(***************************************************************************)
(* C3 as claimed: an input that is not a ZIP container is recovered with   *)
(* the "part not found" string, not the general "parse failure" string.    *)
(***************************************************************************)
C3_NotZipGivesNotFound ==
    (Settled /\ ~file.zip) => result = Resolved(<<LitNotFound>>)

(***************************************************************************)
(* C3 as amended: an input that is not a ZIP container is recovered with   *)
(* the general "parse failure" string, not the "part not found" string.    *)
(***************************************************************************)
C3_NotZipGivesParseFailed ==
    (Settled /\ ~file.zip) => result = Resolved(<<LitParseFailed>>)

C3_Witness ==
    /\ pc = "settled" /\ ~file.zip
    /\ result.kind = "resolved" /\ result.value # <<LitNotFound>>

(***************************************************************************)
(* C4: for every input parseDocxStyles ends by resolving with a string, a  *)
(* report or one of the two fallback strings; it never rejects, so the     *)
(* caller's await never throws and the caller stores the string.           *)
(***************************************************************************)
C4_AlwaysResolvesWithString ==
    /\ result.kind # "rejected"
    /\ Settled =>
          /\ result.kind = "resolved"
          /\ \/ result.value \in {<<LitNotFound>>, <<LitParseFailed>>}
             \/ /\ result.value # <<>>
                /\ Head(result.value) = LitReport
    /\ pc = "returned" => thesisStyleAnalysis = result.value

C4_Witness ==
    /\ pc = "returned" /\ file.zip /\ file.part = "unreadable"
    /\ result.kind = "resolved" /\ thesisStyleAnalysis = <<LitParseFailed>>

\* block b carries the display name and the identifier of definition d
BlockIsOf(b, d) ==
    /\ Field(b, LitStyleName, LitStyleId) = Interp(DisplayName(d))
    /\ Field(b, LitStyleId, LitStyleEnd) = Interp(d.styleId)

(***************************************************************************)
(* C5: a style definition has a block in the report if and only if its     *)
(* identifier contains "heading" or "normal" case-insensitively or its     *)
(* display name is exactly "Normal"; any other style contributes no text,  *)
(* whatever properties it has: the blocks are those of the relevant        *)
(* styles, one each, and the report is the report of the styles part with  *)
(* the other styles taken out.                                             *)
(***************************************************************************)
C5_BlockIffRelevant ==
    ReportSettled =>
        LET blocks == Blocks
            rel    == RelevantStyles
        IN
        /\ Head(result.value) = LitReport
        /\ Len(blocks) = Len(rel)
        /\ \A k \in 1..Len(blocks) : BlockIsOf(blocks[k], rel[k])
        /\ \A eng \in Engines :
              result.value =
                  GenerateReport(ParseFromString(
                      [file.text EXCEPT !.styles = rel], eng))

C5_Witness ==
    /\ ReportSettled
    /\ Len(file.text.styles) = 2
    /\ LET skipped == file.text.styles[1]
           kept    == file.text.styles[2]
       IN  /\ skipped.styleId = Some(sCaption) /\ skipped.rPr # Null
           /\ ~Relevant(skipped)
           /\ kept.styleId = Some(sCaption) /\ kept.name = Some(Some(sNormal))
    /\ Len(Blocks) = 1

(***************************************************************************)
(* C6: the blocks of the report are in the order of their style            *)
(* definitions in the styles part: of two relevant styles the block of the *)
(* earlier one comes first, and nothing is sorted or reordered.            *)
(***************************************************************************)
C6_BlocksInSourceOrder ==
    ReportSettled =>
        LET blocks == Blocks
            styles == file.text.styles
        IN  /\ \A i, j \in 1..Len(styles) :
                  (i < j /\ Relevant(styles[i]) /\ Relevant(styles[j])) =>
                      \E p, q \in 1..Len(blocks) :
                          /\ p < q
                          /\ BlockIsOf(blocks[p], styles[i])
                          /\ BlockIsOf(blocks[q], styles[j])
            /\ \A p, q \in 1..Len(blocks) :
                  p < q =>
                      \E i, j \in 1..Len(styles) :
                          /\ i < j
                          /\ BlockIsOf(blocks[p], styles[i])
                          /\ BlockIsOf(blocks[q], styles[j])

C6_Witness ==
    /\ ReportSettled
    /\ Len(file.text.styles) = 2
    /\ file.text.styles[1].styleId = Some(sNormal)
    /\ file.text.styles[2].styleId = Some(sHeading1)
    /\ Len(Blocks) = 2
    /\ Field(Blocks[1], LitStyleId, LitStyleEnd) = sNormal
    /\ Field(Blocks[2], LitStyleId, LitStyleEnd) = sHeading1

(***************************************************************************)
(* C7: for a relevant style with run properties the bold line is written   *)
(* if and only if a bold element is present and its value is not the       *)
(* string "0"; a bold element without a value gives the line, and "0" is   *)
(* the only value that suppresses it.                                      *)
(***************************************************************************)
C7_BoldIffPresentAndNotZero ==
    ReportSettled =>
        LET blocks == Blocks
            rel    == RelevantStyles
        IN
        /\ Len(blocks) = Len(rel)
        /\ \A k \in 1..Len(blocks) :
              LET d == rel[k]
              IN  d.rPr # Null =>
                      (HasLit(blocks[k], LitBold)
                          <=> /\ Get(d.rPr).b # Null
                              /\ Get(Get(d.rPr).b) # Some(<<"0">>))

C7_Witness ==
    /\ ReportSettled
    /\ \E k \in 1..Len(RelevantStyles) :
          /\ RelevantStyles[k].rPr # Null
          /\ Get(RelevantStyles[k].rPr).b = Some(Null)
          /\ k <= Len(Blocks)
          /\ HasLit(Blocks[k], LitBold)

DecimalDigit(c) ==
    CASE c = "0" -> 0 [] c = "1" -> 1 [] c = "2" -> 2 [] c = "3" -> 3
      [] c = "4" -> 4 [] c = "5" -> 5 [] c = "6" -> 6 [] c = "7" -> 7
      [] c = "8" -> 8 [] c = "9" -> 9 [] OTHER -> -1

IsDecimal(s) == s # <<>> /\ \A k \in 1..Len(s) : DecimalDigit(s[k]) >= 0

RECURSIVE DecimalValue(_)
\* the integer that a string of decimal digits writes
DecimalValue(s) ==
    IF s = <<>> THEN 0
    ELSE 10 * DecimalValue(SubSeq(s, 1, Len(s) - 1)) + DecimalDigit(s[Len(s)])

\* twice the number that s writes, s being digits or digits followed by
\* ".5"; -1 for any other text
TwiceDecimalValue(s) ==
    IF IsDecimal(s) THEN 2 * DecimalValue(s)
    ELSE IF /\ Len(s) >= 3
            /\ SubSeq(s, Len(s) - 1, Len(s)) = <<".", "5">>
            /\ IsDecimal(SubSeq(s, 1, Len(s) - 2))
    THEN 2 * DecimalValue(SubSeq(s, 1, Len(s) - 2)) + 1
    ELSE -1

(***************************************************************************)
(* C8: for a relevant style whose run properties carry a font size v, an   *)
(* integer of half-points, the size line shows the integer v and the       *)
(* points v/2, exactly: no rounding and no other conversion.               *)
(***************************************************************************)
C8_SizeShowsHalfPointsAndPoints ==
    ReportSettled =>
        LET blocks == Blocks
            rel    == RelevantStyles
        IN
        /\ Len(blocks) = Len(rel)
        /\ \A k \in 1..Len(blocks) :
              LET d == rel[k]
              IN  (/\ d.rPr # Null
                   /\ Get(d.rPr).sz # Null
                   /\ Get(Get(d.rPr).sz) # Null
                   /\ IsDecimal(Get(Get(Get(d.rPr).sz)))) =>
                      LET v == DecimalValue(Get(Get(Get(d.rPr).sz)))
                      IN  /\ HasLit(blocks[k], LitSize)
                          /\ IsDecimal(Field(blocks[k], LitSize, LitSizePt))
                          /\ DecimalValue(Field(blocks[k], LitSize, LitSizePt)) = v
                          /\ TwiceDecimalValue(Field(blocks[k], LitSizePt, LitSizeEnd)) = v

C8_Witness ==
    /\ ReportSettled
    /\ \E k \in 1..Len(RelevantStyles) :
          /\ RelevantStyles[k].rPr # Null
          /\ Get(RelevantStyles[k].rPr).sz = Some(Some(<<"2","1">>))
          /\ k <= Len(Blocks)
          /\ Field(Blocks[k], LitSize, LitSizePt) = <<"2","1">>
          /\ Field(Blocks[k], LitSizePt, LitSizeEnd) = <<"1","0",".","5">>

\* a font name as the font line shows it
NameOrDefault(o) == IF o = Null \/ Get(o) = <<>> THEN <<LitDefault>> ELSE Get(o)

\* block b has a font line that shows the two names of the fonts element
ShowsFonts(b, fonts) ==
    /\ HasLit(b, LitFontAscii)
    /\ Field(b, LitFontAscii, LitFontEast) = NameOrDefault(fonts.ascii)
    /\ Field(b, LitFontEast, LitFontEnd) = NameOrDefault(fonts.eastAsia)

(***************************************************************************)
(* C9 as claimed: for a relevant style whose run properties are present    *)
(* the block has a font line showing the Latin and the East-Asian font     *)
(* name, each replaced by the default label when absent.                   *)
(***************************************************************************)
C9_FontLineWheneverRunProperties ==
    ReportSettled =>
        LET blocks == Blocks
            rel    == RelevantStyles
        IN
        /\ Len(blocks) = Len(rel)
        /\ \A k \in 1..Len(blocks) :
              LET d == rel[k]
              IN  d.rPr # Null =>
                      ShowsFonts(blocks[k],
                                 IF Get(d.rPr).rFonts = Null THEN Fonts(Null, Null)
                                 ELSE Get(Get(d.rPr).rFonts))

(***************************************************************************)
(* C9 as amended: for a relevant style whose run properties hold a fonts   *)
(* element the block has a font line showing the Latin and the East-Asian  *)
(* font name, each replaced by the default label when absent or empty;     *)
(* run properties without a fonts element give no font line.               *)
(***************************************************************************)
C9_FontLineIffFontsElement ==
    ReportSettled =>
        LET blocks == Blocks
            rel    == RelevantStyles
        IN
        /\ Len(blocks) = Len(rel)
        /\ \A k \in 1..Len(blocks) :
              LET d == rel[k]
              IN  d.rPr # Null =>
                      IF Get(d.rPr).rFonts = Null
                      THEN ~HasLit(blocks[k], LitFontAscii)
                      ELSE ShowsFonts(blocks[k], Get(Get(d.rPr).rFonts))

C9_Witness ==
    /\ ReportSettled
    /\ \E k \in 1..Len(RelevantStyles) :
          /\ RelevantStyles[k].rPr # Null
          /\ Get(RelevantStyles[k].rPr).rFonts = Some(Fonts(Null, Some(sSimSun)))
          /\ k <= Len(Blocks)
          /\ Field(Blocks[k], LitFontAscii, LitFontEast) = <<LitDefault>>
          /\ Field(Blocks[k], LitFontEast, LitFontEnd) = sSimSun

(***************************************************************************)
(* C10: for a relevant style with a spacing element and/or a justification *)
(* element in its paragraph properties the block shows the line value, the *)
(* rule and the justification value as the raw attribute strings of the    *)
(* source, never translated or converted.                                  *)
(***************************************************************************)
C10_SpacingAndJcVerbatim ==
    ReportSettled =>
        LET blocks == Blocks
            rel    == RelevantStyles
        IN
        /\ Len(blocks) = Len(rel)
        /\ \A k \in 1..Len(blocks) :
              LET d == rel[k]
                  b == blocks[k]
              IN  d.pPr # Null =>
                      /\ Get(d.pPr).spacing # Null =>
                            LET sp == Get(Get(d.pPr).spacing)
                            IN  /\ HasLit(b, LitSpacing)
                                /\ sp.line # Null =>
                                      Field(b, LitSpacing, LitSpacingRule) = Get(sp.line)
                                /\ sp.lineRule # Null =>
                                      Field(b, LitSpacingRule, LitSpacingEnd) = Get(sp.lineRule)
                      /\ (Get(d.pPr).jc # Null /\ Get(Get(d.pPr).jc) # Null) =>
                            /\ HasLit(b, LitJc)
                            /\ LastField(b, LitJc) = Get(Get(Get(d.pPr).jc))

C10_Witness ==
    /\ ReportSettled
    /\ \E k \in 1..Len(RelevantStyles) :
          /\ RelevantStyles[k].pPr =
                Some(ParagraphProperties(
                    Some(Spacing(Some(<<"3","6","0">>), Some(sAuto))),
                    Some(Some(sCenter))))
          /\ k <= Len(Blocks)
          /\ Field(Blocks[k], LitSpacing, LitSpacingRule) = <<"3","6","0">>
          /\ Field(Blocks[k], LitSpacingRule, LitSpacingEnd) = sAuto
          /\ LastField(Blocks[k], LitJc) = sCenter

(***************************************************************************)
(* C12 as claimed: the "part not found" string is returned only for a      *)
(* package without a word/styles.xml entry, and the "parse failed" string  *)
(* only when reading or parsing failed; a styles part that is present,     *)
(* even empty or unparsable, never gives the "part not found" string.      *)
(***************************************************************************)
C12_FallbackStringsNameTheirCause ==
    Settled =>
        /\ result = Resolved(<<LitNotFound>>) =>
              (file.zip /\ file.part = "absent")
        /\ result = Resolved(<<LitParseFailed>>) =>
              \/ ~file.zip
              \/ file.part = "unreadable"
              \/ (file.part = "present" /\ ~file.text.empty /\ ~file.text.wellFormed)

(***************************************************************************)
(* C13 as claimed: the header of a block shows the display name and the    *)
(* identifier of its style; the display name is the value of the name      *)
(* element, and the identifier whenever the style has no display-name      *)
(* value (no name element, or a name element without a value).             *)
(***************************************************************************)
C13_NameFallsBackToStyleId ==
    ReportSettled =>
        LET blocks == Blocks
            rel    == RelevantStyles
        IN
        /\ Len(blocks) = Len(rel)
        /\ \A k \in 1..Len(blocks) :
              LET d == rel[k]
              IN  /\ Field(blocks[k], LitStyleName, LitStyleId) =
                        IF d.name # Null /\ Get(d.name) # Null
                        THEN Get(Get(d.name))
                        ELSE Interp(d.styleId)
                  /\ Field(blocks[k], LitStyleId, LitStyleEnd) = Interp(d.styleId)

(***************************************************************************)
(* C15 as claimed: a block has a size line only when the run properties    *)
(* carry a font-size value; a style without a size element, or with a size *)
(* element that has no value, gets no size line.                           *)
(***************************************************************************)
C15_SizeLineOnlyWithValue ==
    ReportSettled =>
        LET blocks == Blocks
            rel    == RelevantStyles
        IN
        /\ Len(blocks) = Len(rel)
        /\ \A k \in 1..Len(blocks) :
              LET d == rel[k]
              IN  HasLit(blocks[k], LitSize) =>
                      /\ d.rPr # Null
                      /\ Get(d.rPr).sz # Null
                      /\ Get(Get(d.rPr).sz) # Null

(***************************************************************************)
(* C15 as amended: a block has a size line if and only if the run          *)
(* properties of its style hold a size element; a size element whose value *)
(* is absent or empty gives the line with 0 half-points and 0 points, and  *)
(* run properties without a size element give no size line.                *)
(***************************************************************************)
C15_SizeLineIffSizeElement ==
    ReportSettled =>
        LET blocks == Blocks
            rel    == RelevantStyles
        IN
        /\ Len(blocks) = Len(rel)
        /\ \A k \in 1..Len(blocks) :
              LET d  == rel[k]
                  sz == IF d.rPr = Null THEN Null ELSE Get(d.rPr).sz
              IN  /\ HasLit(blocks[k], LitSize) <=> sz # Null
                  /\ (sz # Null /\ Get(sz) \in {Null, Some(<<>>)}) =>
                        /\ Field(blocks[k], LitSize, LitSizePt) = <<"0">>
                        /\ Field(blocks[k], LitSizePt, LitSizeEnd) = <<"0">>

C15_Witness ==
    /\ ReportSettled
    /\ \E k \in 1..Len(RelevantStyles) :
          /\ RelevantStyles[k].rPr # Null
          /\ Get(RelevantStyles[k].rPr).sz = Some(Null)
          /\ k <= Len(Blocks)
          /\ Field(Blocks[k], LitSize, LitSizePt) = <<"0">>

(***************************************************************************)
(* C11: two invocations of parseDocxStyles on byte-identical input return  *)
(* byte-identical strings, whatever other invocations ran before or        *)
(* between them: nothing is carried over from one invocation to another.   *)
(***************************************************************************)
C11_SameInputSameOutput ==
    \A i, j \in 1..NumInvocations :
        (/\ invocations[i].pc = "settled"
         /\ invocations[j].pc = "settled"
         /\ invocations[i].file = invocations[j].file)
            => invocations[i].result = invocations[j].result

C11_Witness ==
    \E i, j \in 1..NumInvocations :
        /\ i # j
        /\ invocations[i].pc = "settled"
        /\ invocations[j].pc = "settled"
        /\ invocations[i].file = invocations[j].file
        /\ invocations[i].result.kind = "resolved"
        /\ HasLit(invocations[i].result.value, LitStyleName)
        /\ \E k \in 1..NumInvocations :
              /\ invocations[k].file # invocations[i].file
              /\ invocations[k].pc = "settled"

(***************************************************************************)
(* C14: invocations share no mutable state: when several invocations on    *)
(* different files interleave in any order, each resolves with the string  *)
(* it would return if run alone.                                           *)
(***************************************************************************)
C14_InterleavedAsAlone ==
    \A i \in 1..NumInvocations :
        invocations[i].pc = "settled" =>
            invocations[i].result = RunAlone(invocations[i].file, engine)

\* two invocations on different packages have resolved with different
\* strings while a third is between its awaits
C14_Witness ==
    \E i, j \in 1..NumInvocations :
        /\ invocations[i].pc = "settled"
        /\ invocations[j].pc = "settled"
        /\ invocations[i].file.zip /\ invocations[j].file.zip
        /\ frames[Frame(i)] # Null /\ frames[Frame(j)] # Null
        /\ invocations[i].file # invocations[j].file
        /\ invocations[i].result.kind = "resolved"
        /\ invocations[j].result.kind = "resolved"
        /\ invocations[i].result # invocations[j].result
        /\ \E k \in 1..NumInvocations : invocations[k].pc = "readStyles"

(***************************************************************************)
(* C19: when the signal is already aborted at the call, analyzeText        *)
(* rejects with an AbortError before it creates the client or sends a      *)
(* request; when the signal is aborted while the request is in flight, a   *)
(* successful model response is discarded and analyzeText rejects with an  *)
(* AbortError.                                                             *)
(***************************************************************************)
C19_AbortedSignalRejects ==
    \A id \in 1..Len(analyzeCalls) :
        LET call == analyzeCalls[id]
        IN  /\ call.abortedAtCall =>
                  /\ call.settle = RejectedWith(AbortError)
                  /\ ~call.clientCreated
                  /\ ~call.requestSent
            /\ (call.outcome.kind = "response" /\ call.abortedAtResponse) =>
                  call.settle = RejectedWith(AbortError)

C19_Witness ==
    /\ apiKey
    /\ Len(analyzeCalls) = 2
    /\ analyzeCalls[1].abortedAtCall
    /\ analyzeCalls[1].settle.kind = "rejected"
    /\ ~analyzeCalls[2].abortedAtCall
    /\ analyzeCalls[2].requestSent
    /\ analyzeCalls[2].abortedAtResponse
    /\ analyzeCalls[2].outcome = Response(<<Body(FullDoc)>>)
    /\ analyzeCalls[2].settle.kind = "rejected"

(***************************************************************************)
(* C20: every result analyzeText resolves with has a numeric score, a      *)
(* string summary and an array of issues, whatever the model returned:     *)
(* missing fields, wrong types, an empty response, fenced JSON, JSON that  *)
(* is not an object.                                                       *)
(***************************************************************************)
C20_ResultIsWellFormed ==
    \A id \in 1..Len(analyzeCalls) :
        LET settle == analyzeCalls[id].settle
        IN  settle.kind = "resolved" =>
                /\ settle.value.score.type = "number"
                /\ settle.value.summary.type = "string"
                /\ settle.value.issues.type = "array"

C20_Witness ==
    /\ Len(analyzeCalls) = 2
    /\ analyzeCalls[1].outcome = Response(<<FencePlain, Body(WrongTypesDoc), FencePlain>>)
    /\ analyzeCalls[1].settle.kind = "resolved"
    /\ analyzeCalls[1].settle.value.score = JsNumber(<<"0">>)
    /\ analyzeCalls[2].outcome = Response(<<Body(NullDoc)>>)
    /\ analyzeCalls[2].settle.kind = "resolved"

\* s is empty or whitespace only
IsBlank(s) == \A k \in 1..Len(s) : s[k] \in WhiteSpaceChars

(***************************************************************************)
(* C16: when handleAnalyze runs with an analysis result present and        *)
(* inputsChanged false, it only sets currentStep to REPORT: no request is  *)
(* issued, and analysisResult, isLoading and the abort controller are left *)
(* as they were.                                                           *)
(***************************************************************************)
C16_ReuseOnlyShowsReport ==
    [][(/\ lastEvent' = Event("handleAnalyze", "")
        /\ analysisResult # Null
        /\ ~inputsChanged)
          => /\ currentStep' = "REPORT"
             /\ UNCHANGED <<analysisResult, isLoading, abortControllerRef,
                            analyzeCalls, inputsChanged>>]_vars

C16_Witness ==
    /\ lastEvent = Event("handleAnalyze", "")
    /\ currentStep = "REPORT"
    /\ analysisResult # Null
    /\ ~inputsChanged
    /\ Len(analyzeCalls) = 1
    /\ analyzeCalls[1].settle.kind = "resolved"

(***************************************************************************)
(* C17: handleStepClick changes no state while isLoading is true; when not *)
(* loading, a click on UPLOAD always sets currentStep to UPLOAD, a click   *)
(* on REPORT sets it to REPORT only if analysisResult is not null, and a   *)
(* click on ANALYZING, FIXING or RESULT leaves currentStep as it was.      *)
(***************************************************************************)
C17_StepClick ==
    [][\A step \in AppStep :
          lastEvent' = Event("handleStepClick", step) =>
              /\ UNCHANGED <<thesisText, thesisHtml, formatRequirements,
                             formatFileBase64, analysisResult, inputsChanged,
                             fixedText, isLoading, isExtractingRules,
                             abortControllerRef, tasks, analyzeCalls>>
              /\ isLoading => currentStep' = currentStep
              /\ ~isLoading =>
                    currentStep' =
                        IF step = "UPLOAD" THEN "UPLOAD"
                        ELSE IF step = "REPORT" /\ analysisResult # Null
                        THEN "REPORT"
                        ELSE currentStep]_vars

\* Upload was clicked during the analysis, and the analysis is still shown
C17_Witness ==
    /\ lastEvent = Event("handleStepClick", "UPLOAD")
    /\ isLoading
    /\ currentStep = "ANALYZING"
    /\ abortControllerRef = 1

(***************************************************************************)
(* C18: when handleAnalyze runs without a result to reuse and the thesis   *)
(* text is empty or whitespace only, or there is neither a non-blank       *)
(* requirement text nor a format file, nothing is started: currentStep,    *)
(* isLoading, analysisResult and the abort controller are left as they     *)
(* were; a requirement text alone or a format file alone is enough for the *)
(* analysis to start.                                                      *)
(***************************************************************************)
C18_InvalidInputsStartNothing ==
    [][(/\ lastEvent' = Event("handleAnalyze", "")
        /\ ~(analysisResult # Null /\ ~inputsChanged))
          => IF \/ IsBlank(thesisText)
                \/ (IsBlank(formatRequirements) /\ formatFileBase64 = Null)
             THEN UNCHANGED <<currentStep, isLoading, analysisResult,
                              abortControllerRef, analyzeCalls>>
             ELSE /\ Len(analyzeCalls') = Len(analyzeCalls) + 1
                  /\ apiKey =>
                        /\ currentStep' = "ANALYZING"
                        /\ isLoading'
                        /\ abortControllerRef' = Len(analyzeCalls')
                        /\ analyzeCalls'[Len(analyzeCalls')].requestSent]_vars

\* the analyze button was enabled by the HTML of an uploaded document, the
\* text is blank, and handleAnalyze has started nothing
C18_Witness ==
    /\ lastEvent = Event("handleAnalyze", "")
    /\ currentStep = "UPLOAD"
    /\ IsBlank(thesisText)
    /\ thesisHtml # <<>>
    /\ formatFileBase64 # Null
    /\ IsBlank(formatRequirements)
    /\ apiKey
    /\ analyzeCalls = <<>>
    /\ ~isLoading

\* the issues of the catch block: id "error-1", severity CRITICAL
ErrorIssues == {LitErrorIssueUnavailable, LitErrorIssueIncomplete}

\* the fallback result: score 0 and exactly one issue, an error issue
IsFallback(res) ==
    /\ res.score = JsNumber(<<"0">>)
    /\ res.issues.type = "array"
    /\ Len(res.issues.val) = 1
    /\ res.issues.val[1] \in ErrorIssues

\* the call has failed otherwise than by an abort: there was no API key,
\* the model call ended with an error that is no abort error, or the text
\* of the response could not be parsed
FailedWithoutAbort(call) ==
    /\ ~call.abortedAtCall
    /\ \/ ~call.clientCreated
       \/ /\ call.outcome.kind = "error"
          /\ call.outcome.error.name # "AbortError"
          /\ call.outcome.error.message # "Aborted"
       \/ /\ call.outcome.kind = "response"
          /\ ~call.abortedAtResponse
          /\ JsonParse(StripFences(TextOrEmptyObject(call.outcome.text))).kind
                 = "throw"

(***************************************************************************)
(* C21: analyzeText rejects only with an abort error; after any other      *)
(* failure (no API key, an error of the model call, a response that cannot *)
(* be parsed or is truncated) it resolves with the fallback result: score  *)
(* 0 and exactly one issue, of severity CRITICAL and id "error-1".         *)
(***************************************************************************)
C21_OnlyAbortRejects ==
    \A id \in 1..Len(analyzeCalls) :
        LET call == analyzeCalls[id]
        IN  /\ call.settle.kind = "rejected" =>
                  \/ call.settle.value.name = "AbortError"
                  \/ call.settle.value.message = "Aborted"
            /\ FailedWithoutAbort(call) =>
                  /\ call.settle.kind = "resolved"
                  /\ IsFallback(call.settle.value)

\* the fix has failed: the model call ended with an error, or the model
\* returned no text
FixFailed(call) ==
    \/ call.outcome.kind = "error"
    \/ call.outcome.kind = "response" /\ call.outcome.text = <<>>

(***************************************************************************)
(* C22: when the fix fails (the model call ends with an error, or the      *)
(* model returns empty text), fixText resolves with the text it was given, *)
(* unchanged, and does not reject.                                         *)
(***************************************************************************)
C22_FailedFixReturnsOriginal ==
    \A id \in 1..Len(fixCalls) :
        LET call == fixCalls[id]
        IN  FixFailed(call) => call.settle = Resolved(call.text)

\* a model call that ended with an error and one that returned no text,
\* each for a text that is not empty
C22_Witness ==
    /\ Len(fixCalls) = 2
    /\ fixCalls[1].text = <<"a">>
    /\ fixCalls[1].outcome = Failure(ServiceError)
    /\ fixCalls[1].settle = Resolved(<<"a">>)
    /\ fixCalls[2].text # <<>>
    /\ fixCalls[2].outcome = Response(<<>>)
    /\ fixCalls[2].settle = Resolved(fixCalls[2].text)

(***************************************************************************)
(* C23: when the extraction of the rules from an uploaded format file      *)
(* fails, formatRequirements is left as it was, the uploaded file stays    *)
(* attached, and isExtractingRules is false again; isExtractingRules is    *)
(* false again after an extraction that succeeded, too.                    *)
(***************************************************************************)
C23_FailedExtractionLeavesUiFree ==
    [][/\ lastEvent' = Event("extractionSettled", "error") =>
              /\ formatRequirements' = formatRequirements
              /\ formatFileBase64' = formatFileBase64
              /\ ~isExtractingRules'
       /\ lastEvent' = Event("formatFileLoaded", "error") =>
              /\ formatRequirements' = formatRequirements
              /\ formatFileBase64' # Null
              /\ ~isExtractingRules'
       /\ lastEvent' = Event("extractionSettled", "response") =>
              ~isExtractingRules']_vars

\* the model call of an extraction has failed with requirements typed in
\* and the file attached
C23_Witness ==
    /\ lastEvent = Event("extractionSettled", "error")
    /\ formatRequirements = <<"r">>
    /\ formatFileBase64 # Null
    /\ ~isExtractingRules

(***************************************************************************)
(* C24: when handleCancelAnalysis has run for an analysis in flight,       *)
(* currentStep is UPLOAD and isLoading is false; and when that cancelled   *)
(* analysis completes later (the model call succeeds, fails or aborts),    *)
(* the completion does not set analysisResult, does not clear              *)
(* inputsChanged and does not move currentStep to REPORT.                  *)
(***************************************************************************)
C24_CancelledAnalysisChangesNothing ==
    [][/\ lastEvent' = Event("handleCancelAnalysis", "") =>
              /\ currentStep' = "UPLOAD"
              /\ ~isLoading'
       /\ \A id \in 1..Len(analyzeCalls) :
              (/\ analyzeCalls[id].signal = "aborted"
               /\ analyzeCalls[id].settle = Pending
               /\ analyzeCalls'[id].settle # Pending)
                 => /\ analysisResult' = analysisResult
                    /\ inputsChanged => inputsChanged'
                    /\ currentStep' = "REPORT" => currentStep = "REPORT"]_vars

\* the own element of a style definition: its styleId, name, run and
\* paragraph properties, without its basedOn reference
OwnElement(d) == [d EXCEPT !.basedOn = Null]

\* invocation i has resolved on a well-formed styles part
ReportOf(i) ==
    /\ invocations[i].pc = "settled"
    /\ invocations[i].file.zip
    /\ invocations[i].file.part = "present"
    /\ invocations[i].file.text.wellFormed
    /\ ~invocations[i].file.text.empty

(***************************************************************************)
(* C25: the block written for a style is determined by that style's own    *)
(* element alone (styleId, name, run and paragraph properties): two        *)
(* reports have the same block for a style whose own element is the same   *)
(* in both files, whatever the other styles of the files are and whatever  *)
(* the style is based on.                                                  *)
(***************************************************************************)
C25_BlockOfOwnElementOnly ==
    \A i, j \in 1..NumInvocations :
        (ReportOf(i) /\ ReportOf(j)) =>
            LET ri == SelectSeq(invocations[i].file.text.styles, Relevant)
                rj == SelectSeq(invocations[j].file.text.styles, Relevant)
                bi == BlocksOf(invocations[i].result.value)
                bj == BlocksOf(invocations[j].result.value)
            IN  /\ Len(bi) = Len(ri)
                /\ Len(bj) = Len(rj)
                /\ \A a \in 1..Len(ri) : \A b \in 1..Len(rj) :
                       OwnElement(ri[a]) = OwnElement(rj[b]) => bi[a] = bj[b]

\* three reports hold a block of the same heading style: alone, after
\* another style, and after a third style that it is based on
C25_Witness ==
    \E i, j, k \in 1..NumInvocations :
        /\ ReportOf(i) /\ ReportOf(j) /\ ReportOf(k)
        /\ invocations[i].file.text.styles = <<SessionHeading>>
        /\ invocations[j].file.text.styles = <<SessionNormalBold, SessionHeading>>
        /\ invocations[k].file.text.styles =
               <<SessionNormal, BasedOn(SessionHeading, Some(sNormal))>>
        /\ Len(BlocksOf(invocations[k].result.value)) = 2
        /\ BlocksOf(invocations[k].result.value)[1]
               # BlocksOf(invocations[j].result.value)[1]
        /\ BlocksOf(invocations[k].result.value)[2]
               = BlocksOf(invocations[i].result.value)[1]

====
